---- MODULE Spec2Model ----
(***************************************************************************)
(* A model of the goal-tree inference engine of expert_system:            *)
(* three-valued logic, the DAG store, goal-tree construction, truth        *)
(* propagation with exclusive groups, pruning, solution detection and the  *)
(* GoalTree snapshots produced by set().                                   *)
(***************************************************************************)
EXTENDS Integers, Sequences, FiniteSets, TLC

(***************************************************************************)
(* Bounds of the model.                                                    *)
(***************************************************************************)
\* the number of set() calls of a session
MaxCalls == 2
\* the number of facts one set() call asserts
MaxBatch == 2
\* the iteration counter of the exclusion loop saturates here
MaxIter == 8

\* the longest collection or3 / and3 is given
MaxLen == 4

\* the most AND-sets a generated rule table gives one fact
MaxOrSet == 1

\* the most targets one add_edge(v_from, *v_tos) call is given
MaxTargets == 2

\* the number of facts set() asserts on a tree built with check_guaranteed
MaxAnswers == 1

(***************************************************************************)
(* Truth values: Python's True, False and None.                            *)
(***************************************************************************)
TT == "true"
FF == "false"
NN == "unknown"
Truth3 == {TT, FF, NN}

\* Python truthiness of a truth value: only True is truthy
Truthy(v) == v = TT

(***************************************************************************)
(* three_valued_logic.py                                                   *)
(***************************************************************************)
\* a variant that answers False as soon as one value is False
or3_any_false(ls) ==
    IF \E k \in DOMAIN ls : Truthy(ls[k]) THEN TT
    ELSE IF \E k \in DOMAIN ls : ls[k] = FF THEN FF
    ELSE NN

or3(ls) ==
    IF \E k \in DOMAIN ls : Truthy(ls[k]) THEN TT
    ELSE IF \A k \in DOMAIN ls : ls[k] = FF THEN FF
    ELSE NN

\* a variant of and3 that looks for an unknown value first
and3_unknown_first(ls) ==
    IF \E k \in DOMAIN ls : ls[k] = NN THEN NN
    ELSE IF \E k \in DOMAIN ls : ls[k] = FF THEN FF
    ELSE TT

and3(ls) ==
    IF \E k \in DOMAIN ls : ls[k] = FF THEN FF
    ELSE IF \A k \in DOMAIN ls : Truthy(ls[k]) THEN TT
    ELSE NN

(***************************************************************************)
(* Nodes of the goal tree: frozen dataclasses, equal by content.           *)
(***************************************************************************)
FactNode(fact, truth, pruned) ==
    [kind |-> "FactNode", fact |-> fact, truth |-> truth, pruned |-> pruned]

AndNode(parent_fact, id, truth, pruned) ==
    [kind |-> "AndNode", parent_fact |-> parent_fact, id |-> id,
     truth |-> truth, pruned |-> pruned]

isFactNode(n) == n.kind = "FactNode"

\* dataclasses.replace(node, pruned=p)
\* a variant that takes a pruned node for false
replace_pruned_decides(node, p) ==
    [node EXCEPT !.pruned = p, !.truth = IF p THEN FF ELSE @]

replace_pruned(node, p) == [node EXCEPT !.pruned = p]

(***************************************************************************)
(* Helpers: a set as a list in some iteration order, a map's get().        *)
(***************************************************************************)
RECURSIVE SetToSeq(_)
SetToSeq(S) ==
    IF S = {} THEN << >>
    ELSE LET x == CHOOSE x \in S : TRUE IN <<x>> \o SetToSeq(S \ {x})

\* dict.get(key): None when the key is absent
Get(d, key) == IF key \in DOMAIN d THEN d[key] ELSE NN

\* d1 | d2 for dicts: the right operand wins
Merge(d1, d2) == d2 @@ d1

(***************************************************************************)
(* DAG.py: the graph is a successor index and a predecessor index.         *)
(***************************************************************************)
EmptyDAG == [graph |-> << >>, graph_reverse |-> << >>]

vertices(dag) == DOMAIN dag.graph

add_vertex(dag, vtx) ==
    IF vtx \in DOMAIN dag.graph THEN dag
    ELSE [graph |-> dag.graph @@ (vtx :> {}),
          graph_reverse |-> dag.graph_reverse @@ (vtx :> {})]

data_add_edge(dag, v_from, v_to) ==
    [graph |-> [dag.graph EXCEPT ![v_from] = @ \cup {v_to}],
     graph_reverse |-> [dag.graph_reverse EXCEPT ![v_to] = @ \cup {v_from}]]

\* a variant that forgets the predecessor index
data_remove_edge_forward_only(dag, v_from, v_to) ==
    [graph |-> [dag.graph EXCEPT ![v_from] = @ \ {v_to}],
     graph_reverse |-> dag.graph_reverse]

data_remove_edge(dag, v_from, v_to) ==
    [graph |-> [dag.graph EXCEPT ![v_from] = @ \ {v_to}],
     graph_reverse |-> [dag.graph_reverse EXCEPT ![v_to] = @ \ {v_from}]]

validate_vertex(dag, vs) == \A k \in DOMAIN vs : vs[k] \in vertices(dag)

successors(dag, vertex) == dag.graph[vertex]

predecessors(dag, vertex) == dag.graph_reverse[vertex]

indegree(dag, vertex) == Cardinality(predecessors(dag, vertex))

outdegree(dag, vertex) == Cardinality(successors(dag, vertex))

\* a variant that looks no further than the successors of v_from
has_path_to_direct(dag, v_from, v_to) ==
    v_from = v_to \/ v_to \in dag.graph[v_from]

\* a variant that looks for a path of at least one edge
RECURSIVE has_path_to_proper(_, _, _)
has_path_to_proper(dag, v_from, v_to) ==
    \E vtx \in dag.graph[v_from] :
        vtx = v_to \/ has_path_to_proper(dag, vtx, v_to)

RECURSIVE has_path_to(_, _, _)
has_path_to(dag, v_from, v_to) ==
    IF v_from = v_to THEN TRUE
    ELSE \E vtx \in dag.graph[v_from] : has_path_to(dag, vtx, v_to)

\* add_edge(v_from, *v_tos): [raised, dag]; the targets are added one by one
RECURSIVE add_edge_loop(_, _, _)
add_edge_loop(dag, v_from, v_tos) ==
    IF v_tos = << >> THEN [raised |-> FALSE, dag |-> dag]
    ELSE IF has_path_to(dag, Head(v_tos), v_from)
         THEN [raised |-> TRUE, dag |-> dag]
         ELSE add_edge_loop(data_add_edge(dag, v_from, Head(v_tos)),
                            v_from, Tail(v_tos))

add_edge(dag, v_from, v_tos) ==
    IF ~validate_vertex(dag, <<v_from>> \o v_tos)
    THEN [raised |-> TRUE, dag |-> dag]
    ELSE add_edge_loop(dag, v_from, v_tos)

remove_edge(dag, v_from, v_to) ==
    IF ~validate_vertex(dag, <<v_from, v_to>>)
    THEN [raised |-> TRUE, dag |-> dag]
    ELSE IF v_to \notin dag.graph[v_from]
         THEN [raised |-> TRUE, dag |-> dag]
         ELSE [raised |-> FALSE, dag |-> data_remove_edge(dag, v_from, v_to)]

all_starts(dag) == {vtx \in vertices(dag) : indegree(dag, vtx) = 0}

all_terminals(dag) == {vtx \in vertices(dag) : outdegree(dag, vtx) = 0}

\* a variant that compares the start sets and goes no deeper
equal_vertex_sets_shallow(self, other, self_vset, other_vset) ==
    self_vset = other_vset

\* DAG.__eq__: equal start sets and, recursively, equal successor sets
RECURSIVE equal_vertex_sets(_, _, _, _)
equal_vertex_sets(self, other, self_vset, other_vset) ==
    IF self_vset # other_vset THEN FALSE
    ELSE \A v \in self_vset :
            equal_vertex_sets(self, other, successors(self, v), successors(other, v))

dag_eq(self, other) ==
    equal_vertex_sets(self, other, all_starts(self), all_starts(other))

(***************************************************************************)
(* goal_tree.py: construct_dag.  A rule table maps a fact to a tuple of    *)
(* AND-sets; [raised, dag] because add_edge may raise.                     *)
(***************************************************************************)
RulesFacts(rules) ==
    DOMAIN rules \cup
    UNION {UNION {rules[f][k] : k \in DOMAIN rules[f]} : f \in DOMAIN rules}

\* step 1: a fact-node for every key and every fact of an AND-set
construct_vertices(rules) ==
    [graph |-> [n \in {FactNode(f, NN, FALSE) : f \in RulesFacts(rules)} |-> {}],
     graph_reverse |-> [n \in {FactNode(f, NN, FALSE) : f \in RulesFacts(rules)} |-> {}]]

RECURSIVE add_edges_to_facts(_, _, _)
add_edges_to_facts(st, v_from, child_facts) ==
    IF st.raised \/ child_facts = << >> THEN st
    ELSE add_edges_to_facts(
            add_edge(st.dag, v_from, <<FactNode(Head(child_facts), NN, FALSE)>>),
            v_from, Tail(child_facts))

\* a variant that leaves the ordinal out of the and-node
and_node_no_ordinal(fact, i) == AndNode(fact, 0, NN, FALSE)

\* and_node = AndNode(fact, i)
and_node_of(fact, i) == AndNode(fact, i, NN, FALSE)

\* a variant that gives a singleton AND-set an and-node too
construct_and_set_no_elision(st, fact, i, and_set) ==
    IF st.raised THEN st
    ELSE LET and_node == and_node_of(fact, i)
             st1 == add_edge(add_vertex(st.dag, and_node),
                             FactNode(fact, NN, FALSE), <<and_node>>)
         IN add_edges_to_facts(st1, and_node, SetToSeq(and_set))

\* the body of the loop over enumerate(and_sets), for the AND-set at index i
construct_and_set(st, fact, i, and_set) ==
    IF st.raised THEN st
    ELSE IF ~(Cardinality(and_set) >= 1) THEN [raised |-> TRUE, dag |-> st.dag]
    ELSE IF Cardinality(and_set) = 1
         THEN add_edge(st.dag, FactNode(fact, NN, FALSE),
                       <<FactNode(CHOOSE c \in and_set : TRUE, NN, FALSE)>>)
         ELSE LET and_node == and_node_of(fact, i)
                  st1 == add_edge(add_vertex(st.dag, and_node),
                                  FactNode(fact, NN, FALSE), <<and_node>>)
              IN add_edges_to_facts(st1, and_node, SetToSeq(and_set))

RECURSIVE construct_and_sets(_, _, _, _)
construct_and_sets(st, fact, and_sets, k) ==
    IF k > Len(and_sets) THEN st
    ELSE construct_and_sets(construct_and_set(st, fact, k - 1, and_sets[k]),
                            fact, and_sets, k + 1)

RECURSIVE construct_edges(_, _, _)
construct_edges(st, rules, facts) ==
    IF facts = << >> THEN st
    ELSE construct_edges(construct_and_sets(st, Head(facts), rules[Head(facts)], 1),
                         rules, Tail(facts))

construct_dag(rules) ==
    construct_edges([raised |-> FALSE, dag |-> construct_vertices(rules)],
                    rules, SetToSeq(DOMAIN rules))

(***************************************************************************)
(* goal_tree.py: update_truth.  add_node is memoized: st.cache maps a node *)
(* of the old dag to its new node, st.new_dag is the dag being built.      *)
(***************************************************************************)
\* a variant that consults the assertions for leaves only
fact_truth_infer_only(assertions, node, children_truths) == or3(children_truths)

\* a variant that keeps a truth the old node already holds
fact_truth_sticky(assertions, node, children_truths) ==
    IF Get(assertions, node.fact) # NN THEN Get(assertions, node.fact)
    ELSE IF node.truth # NN THEN node.truth
    ELSE or3(children_truths)

\* the truth of the new node of a fact-node that has successors
fact_truth(assertions, node, children_truths) ==
    IF Get(assertions, node.fact) = NN THEN or3(children_truths)
    ELSE Get(assertions, node.fact)

\* the truth of the new node of a leaf
leaf_truth(assertions, node) == Get(assertions, node.fact)

\* a variant that copies the old node and replaces its truth only
new_fact_node_replace(node, truth) == [node EXCEPT !.truth = truth]

\* FactNode(fact, truth=truth): the new node takes nothing but the fact
new_fact_node(node, truth) == FactNode(node.fact, truth, FALSE)

\* the new node for `node`, st1 holding the new nodes of its children
ut_new_node(assertions, st1, node, succs) ==
    LET new_children == [k \in DOMAIN succs |-> st1.cache[succs[k]]]
        children_truths == [k \in DOMAIN succs |-> new_children[k].truth]
        new_node ==
            IF isFactNode(node)
            THEN new_fact_node(node,
                               fact_truth(assertions, node, children_truths))
            ELSE AndNode(node.parent_fact, node.id, and3(children_truths), FALSE)
    IN [new_dag |-> add_edge(add_vertex(st1.new_dag, new_node),
                             new_node, new_children).dag,
        cache |-> st1.cache @@ (node :> new_node)]

\* the state after each step is bound once, as the cached add_node holds it
RECURSIVE ut_add_node(_, _, _, _), ut_add_nodes(_, _, _, _)
ut_add_node(dag, assertions, st, node) ==
    IF node \in DOMAIN st.cache THEN st
    ELSE IF outdegree(dag, node) = 0
    THEN LET new_node == new_fact_node(node, leaf_truth(assertions, node))
         IN [new_dag |-> add_vertex(st.new_dag, new_node),
             cache |-> st.cache @@ (node :> new_node)]
    ELSE CHOOSE res \in
            {ut_new_node(assertions, st1, node, succs) :
                st1 \in {ut_add_nodes(dag, assertions, st,
                                      SetToSeq(successors(dag, node)))},
                succs \in {SetToSeq(successors(dag, node))}} :
            TRUE

ut_add_nodes(dag, assertions, st, nodes) ==
    IF nodes = << >> THEN st
    ELSE CHOOSE res \in
            {ut_add_nodes(dag, assertions, st1, rest) :
                st1 \in {CHOOSE r \in {ut_add_node(dag, assertions, st, node) :
                                           node \in {Head(nodes)}} : TRUE},
                rest \in {Tail(nodes)}} :
            TRUE

update_truth(dag, assertions) ==
    CHOOSE res \in
        {ut_add_nodes(d, a, [new_dag |-> EmptyDAG, cache |-> << >>],
                      SetToSeq(all_starts(d))).new_dag :
            d \in {dag}, a \in {assertions}} :
        TRUE

\* dag_truths: fact -> truth, over the fact-nodes of the dag
dag_truths(dag) ==
    [f \in {n.fact : n \in {m \in vertices(dag) : isFactNode(m)}} |->
        (CHOOSE n \in vertices(dag) : isFactNode(n) /\ n.fact = f).truth]

(***************************************************************************)
(* goal_tree.py: update_truth_with_groups, one pass of its loop body after *)
(* update_truth: the groups' true facts, the raise, the excluded facts and *)
(* the assertions of the next pass.  Groups are a tuple of sets of facts.  *)
(***************************************************************************)
utwg_true_facts(truths, group) == {fact \in group : Get(truths, fact) = TT}

\* a variant that tolerates two true facts in a group
utwg_raises_above_two(truths, exclusive_groups) ==
    \E k \in DOMAIN exclusive_groups :
        Cardinality(utwg_true_facts(truths, exclusive_groups[k])) > 2

utwg_raises(truths, exclusive_groups) ==
    \E k \in DOMAIN exclusive_groups :
        Cardinality(utwg_true_facts(truths, exclusive_groups[k])) > 1

utwg_excluded_facts(truths, exclusive_groups) ==
    UNION {exclusive_groups[k] \ utwg_true_facts(truths, exclusive_groups[k]) :
           k \in {j \in DOMAIN exclusive_groups :
                    utwg_true_facts(truths, exclusive_groups[j]) # {}}}

\* truths | {f: False for f in excluded_facts}
utwg_new_truths(truths, excluded_facts) ==
    Merge(truths, [f \in excluded_facts |-> FF])

\* a variant that returns the first pass without applying the excluded facts
utwg_breaks_first_pass(truths, exclusive_groups) == TRUE

\* the loop ends here: no excluded fact, or the excluded facts change nothing
utwg_breaks(truths, exclusive_groups) ==
    \/ utwg_excluded_facts(truths, exclusive_groups) = {}
    \/ utwg_new_truths(truths, utwg_excluded_facts(truths, exclusive_groups)) = truths

\* the whole function, for at most `fuel` passes:
\* [outcome: "returned" | "raised" | "running", dag, iterations]
RECURSIVE utwg_run(_, _, _, _, _)
utwg_run(dag, assertions, exclusive_groups, n, fuel) ==
    CHOOSE r \in
        {IF utwg_raises(truths, exclusive_groups)
         THEN [outcome |-> "raised", dag |-> new_dag, iterations |-> n + 1]
         ELSE IF utwg_breaks(truths, exclusive_groups)
         THEN [outcome |-> "returned", dag |-> new_dag, iterations |-> n + 1]
         ELSE IF fuel <= 1
         THEN [outcome |-> "running", dag |-> new_dag, iterations |-> n + 1]
         ELSE utwg_run(dag,
                       utwg_new_truths(truths,
                                       utwg_excluded_facts(truths, exclusive_groups)),
                       exclusive_groups, n + 1, fuel - 1) :
            new_dag \in {update_truth(dag, assertions)},
            truths \in {dag_truths(update_truth(dag, assertions))}} :
        TRUE

update_truth_with_groups(dag, assertions, exclusive_groups) ==
    utwg_run(dag, assertions, exclusive_groups, 0, MaxIter)

(***************************************************************************)
(* goal_tree.py: update_pruned, bottom-up and memoized like update_truth.  *)
(***************************************************************************)
\* a variant that is content with one decided parent
\* a variant that looks at the parents only
pruned_flag_parents_only(node, new_parents) ==
    \A k \in DOMAIN new_parents :
        (new_parents[k].truth # NN) \/ new_parents[k].pruned

pruned_flag_any(node, new_parents) ==
    /\ node.truth = NN
    /\ \E k \in DOMAIN new_parents :
          (new_parents[k].truth # NN) \/ new_parents[k].pruned

pruned_flag(node, new_parents) ==
    /\ node.truth = NN
    /\ \A k \in DOMAIN new_parents :
          (new_parents[k].truth # NN) \/ new_parents[k].pruned

\* a variant that links the new node to its first parent only
up_link_parents_first(new_dag, new_parents, new_node) ==
    IF new_parents = << >> THEN new_dag
    ELSE add_edge(new_dag, Head(new_parents), <<new_node>>).dag

\* new_dag.add_edge(new_parent, new_node) for every new parent
RECURSIVE up_link_parents(_, _, _)
up_link_parents(new_dag, new_parents, new_node) ==
    IF new_parents = << >> THEN new_dag
    ELSE up_link_parents(add_edge(new_dag, Head(new_parents), <<new_node>>).dag,
                         Tail(new_parents), new_node)

\* the new node for `node`, st1 holding the new nodes of its parents
up_new_node(st1, node, preds) ==
    LET new_parents == [k \in DOMAIN preds |-> st1.cache[preds[k]]]
        new_node == replace_pruned(node, pruned_flag(node, new_parents))
    IN [new_dag |-> up_link_parents(add_vertex(st1.new_dag, new_node),
                                    new_parents, new_node),
        cache |-> st1.cache @@ (node :> new_node)]

RECURSIVE up_add_node(_, _, _), up_add_nodes(_, _, _)
up_add_node(dag, st, node) ==
    IF node \in DOMAIN st.cache THEN st
    ELSE IF indegree(dag, node) = 0
    THEN [new_dag |-> add_vertex(st.new_dag, node),
          cache |-> st.cache @@ (node :> node)]
    ELSE CHOOSE res \in
            {up_new_node(st1, node, preds) :
                st1 \in {up_add_nodes(dag, st,
                                      SetToSeq(predecessors(dag, node)))},
                preds \in {SetToSeq(predecessors(dag, node))}} :
            TRUE

up_add_nodes(dag, st, nodes) ==
    IF nodes = << >> THEN st
    ELSE CHOOSE res \in
            {up_add_nodes(dag, st1, rest) :
                st1 \in {CHOOSE r \in {up_add_node(dag, st, node) :
                                           node \in {Head(nodes)}} : TRUE},
                rest \in {Tail(nodes)}} :
            TRUE

update_pruned(dag) ==
    CHOOSE res \in
        {up_add_nodes(d, [new_dag |-> EmptyDAG, cache |-> << >>],
                      SetToSeq(all_terminals(d))).new_dag : d \in {dag}} :
        TRUE

(***************************************************************************)
(* goal_tree.py: solution.  [raised, value]; NoSolution is Python's None.  *)
(***************************************************************************)
NoSolution == "<None>"

\* a variant without the all-roots-false case
solution_no_all_false(dag) ==
    LET true == {n \in all_starts(dag) : n.truth = TT}
        unknown == {n \in all_starts(dag) : n.truth = NN}
    IN IF Cardinality(true) = 1
       THEN [raised |-> FALSE, value |-> (CHOOSE n \in true : TRUE).fact]
       ELSE IF Cardinality(true) > 1
       THEN [raised |-> TRUE, value |-> NoSolution]
       ELSE IF Cardinality(unknown) = 1
       THEN [raised |-> FALSE, value |-> (CHOOSE n \in unknown : TRUE).fact]
       ELSE [raised |-> FALSE, value |-> NoSolution]

solution(dag) ==
    LET true == {n \in all_starts(dag) : n.truth = TT}
        false == {n \in all_starts(dag) : n.truth = FF}
        unknown == {n \in all_starts(dag) : n.truth = NN}
    IN IF Cardinality(true) = 1
       THEN [raised |-> FALSE, value |-> (CHOOSE n \in true : TRUE).fact]
       ELSE IF Cardinality(true) > 1
       THEN [raised |-> TRUE, value |-> NoSolution]
       ELSE IF Cardinality(false) = Cardinality(all_starts(dag))
       THEN [raised |-> TRUE, value |-> NoSolution]
       ELSE IF Cardinality(unknown) = 1
       THEN [raised |-> FALSE, value |-> (CHOOSE n \in unknown : TRUE).fact]
       ELSE [raised |-> FALSE, value |-> NoSolution]

(***************************************************************************)
(* goal_tree.py: GoalTree.  __post_init__ evaluates the dag it is given,   *)
(* or a freshly constructed one; set() builds a new GoalTree from the      *)
(* receiver's rules, groups, merged assertions and dag.                    *)
(* [outcome: "returned" | "raised" | "running", assertions, dag]           *)
(***************************************************************************)
post_init(rules, exclusive_groups, assertions, dag) ==
    CHOOSE res \in
        {IF r.outcome = "returned"
         THEN [outcome |-> "returned", assertions |-> assertions,
               dag |-> update_pruned(r.dag)]
         ELSE [outcome |-> r.outcome, assertions |-> assertions, dag |-> r.dag] :
            r \in {update_truth_with_groups(dag, assertions, exclusive_groups)}} :
        TRUE

\* GoalTree(rules, exclusive_groups, assertions): dag is None, so it is constructed
GoalTree(rules, exclusive_groups, assertions) ==
    post_init(rules, exclusive_groups, assertions, construct_dag(rules).dag)

\* a variant that forgets what the receiver was told
set_assertions_new_only(self_assertions, new_assertions) == new_assertions

\* self.assertions | new_assertions
set_assertions(self_assertions, new_assertions) ==
    Merge(self_assertions, new_assertions)

\* GoalTree.set(new_assertions) on the snapshot gt
GoalTree_set(rules, exclusive_groups, gt, new_assertions) ==
    post_init(rules, exclusive_groups,
              set_assertions(gt.assertions, new_assertions), gt.dag)

(***************************************************************************)
(* goal_tree.py: node_value.  The result is                                *)
(* [outcome, roots_cut_if_false, roots_cut_if_true,                        *)
(*  leaves_pruned_if_false, leaves_pruned_if_true]; outcome is "returned", *)
(* "raised" or "running" as set() ends, or "domain_error" when sqrt is     *)
(* given a negative product.  The score itself, a sum of square roots, is  *)
(* left out.                                                               *)
(***************************************************************************)
roots_turned_false(gt, new_gt) ==
    Cardinality({r \in all_starts(new_gt.dag) : r.truth = FF})
    - Cardinality({r \in all_starts(gt.dag) : r.truth = FF})

leaves_pruned(gt, new_gt) ==
    Cardinality({r \in all_terminals(new_gt.dag) : r.pruned})
    - Cardinality({r \in all_terminals(gt.dag) : r.pruned})

\* sqrt(a * b) raises ValueError on a negative product
geometric_mean_raises(a, b) == a * b < 0

NodeValueResult(outcome, rf, rt, lf, lt) ==
    [outcome |-> outcome, roots_cut_if_false |-> rf, roots_cut_if_true |-> rt,
     leaves_pruned_if_false |-> lf, leaves_pruned_if_true |-> lt]

\* what node_value computes once gt_true and gt_false are there
node_value_counts(gt, gt_true, gt_false) ==
    IF gt_true.outcome # "returned"
    THEN NodeValueResult(gt_true.outcome, 0, 0, 0, 0)
    ELSE IF gt_false.outcome # "returned"
    THEN NodeValueResult(gt_false.outcome, 0, 0, 0, 0)
    ELSE LET rf == roots_turned_false(gt, gt_false)
             rt == roots_turned_false(gt, gt_true)
             lf == leaves_pruned(gt, gt_false)
             lt == leaves_pruned(gt, gt_true)
         IN IF geometric_mean_raises(rf + 1, rt + 1)
               \/ geometric_mean_raises(lf + 1, lt + 1)
            THEN NodeValueResult("domain_error", rf, rt, lf, lt)
            ELSE NodeValueResult("returned", rf, rt, lf, lt)

\* gt_true = gt.set({node.fact: True}), gt_false = gt.set({node.fact: False}),
\* each built once
node_value(rules, exclusive_groups, gt, node) ==
    CHOOSE r \in
        {node_value_counts(gt, gt_true, gt_false) :
            gt_true \in {GoalTree_set(rules, exclusive_groups, gt, (node.fact :> TT))},
            gt_false \in {GoalTree_set(rules, exclusive_groups, gt, (node.fact :> FF))}} :
        TRUE

(***************************************************************************)
(* goal_tree.py: update_guaranteed.  [outcome, assertions]: outcome is     *)
(* "returned", "raised" or "running"; updates is the dict built so far.    *)
(***************************************************************************)
\* assertions.set(fact, truth)
assertions_set(assertions, fact, truth) == Merge(assertions, (fact :> truth))

\* must_be_false: dag_true was built and solution(dag_true) raises; a
\* ValueError of update_truth_with_groups is passed over
must_be_false_of(dag_true) ==
    dag_true.outcome = "returned" /\ solution(dag_true.dag).raised

\* must_be_true: solution(dag_false) raises
must_be_true_of(dag_false) == solution(dag_false.dag).raised

\* one pass of the loop body, dag_false and dag_true given:
\* [outcome, updates]
ug_leaf_decide(leaf, updates, dag_false, dag_true) ==
    IF dag_false.outcome # "returned"
    THEN [outcome |-> dag_false.outcome, updates |-> updates]
    ELSE IF dag_true.outcome = "running"
    THEN [outcome |-> "running", updates |-> updates]
    ELSE IF must_be_false_of(dag_true) /\ must_be_true_of(dag_false)
    THEN [outcome |-> "raised", updates |-> updates]
    ELSE IF must_be_true_of(dag_false)
    THEN [outcome |-> "returned", updates |-> Merge(updates, (leaf.fact :> TT))]
    ELSE IF must_be_false_of(dag_true)
    THEN [outcome |-> "returned", updates |-> Merge(updates, (leaf.fact :> FF))]
    ELSE [outcome |-> "returned", updates |-> updates]

\* the loop body for one leaf; each hypothetical dag is built once
ug_leaf(dag, assertions, exclusive_groups, leaf, updates) ==
    CHOOSE r \in
        {ug_leaf_decide(leaf, updates, dag_false, dag_true) :
            dag_false \in {update_truth_with_groups(
                              dag, assertions_set(assertions, leaf.fact, FF),
                              exclusive_groups)},
            dag_true \in {update_truth_with_groups(
                             dag, assertions_set(assertions, leaf.fact, TT),
                             exclusive_groups)}} :
        TRUE

RECURSIVE ug_leaves(_, _, _, _, _)
ug_leaves(dag, assertions, exclusive_groups, leaves, st) ==
    IF leaves = << >> \/ st.outcome # "returned" THEN st
    ELSE ug_leaves(dag, assertions, exclusive_groups, Tail(leaves),
                   CHOOSE r \in {ug_leaf(dag, assertions, exclusive_groups,
                                         Head(leaves), st.updates)} : TRUE)

update_guaranteed(dag, assertions, exclusive_groups) ==
    LET st == ug_leaves(dag, assertions, exclusive_groups,
                        SetToSeq(all_terminals(dag)),
                        [outcome |-> "returned", updates |-> << >>])
    IN [outcome |-> st.outcome,
        assertions |-> IF st.outcome = "returned"
                       THEN Merge(assertions, st.updates) ELSE assertions]

(***************************************************************************)
(* goal_tree.py: GoalTree(..., check_guaranteed=True).  __post_init__      *)
(* evaluates and prunes the dag, calls update_guaranteed on the result and *)
(* evaluates and prunes again with the guaranteed assertions; the field    *)
(* assertions keeps the assertions it was given.                           *)
(***************************************************************************)
post_init_reevaluate(assertions, exclusive_groups, first, g) ==
    IF g.outcome # "returned"
    THEN [outcome |-> g.outcome, assertions |-> assertions, dag |-> first.dag]
    ELSE LET r == update_truth_with_groups(first.dag, g.assertions,
                                           exclusive_groups)
         IN IF r.outcome = "returned"
            THEN [outcome |-> "returned", assertions |-> assertions,
                  dag |-> update_pruned(r.dag)]
            ELSE [outcome |-> r.outcome, assertions |-> assertions,
                  dag |-> r.dag]

post_init_guaranteed(rules, exclusive_groups, assertions, dag) ==
    CHOOSE res \in
        {IF first.outcome # "returned" THEN first
         ELSE CHOOSE r \in
                {post_init_reevaluate(assertions, exclusive_groups, first, g) :
                    g \in {update_guaranteed(first.dag, assertions,
                                             exclusive_groups)}} : TRUE :
            first \in {post_init(rules, exclusive_groups, assertions, dag)}} :
        TRUE

\* GoalTree(rules, exclusive_groups, assertions, check_guaranteed=True)
GoalTree_guaranteed(rules, exclusive_groups, assertions) ==
    post_init_guaranteed(rules, exclusive_groups, assertions,
                         construct_dag(rules).dag)

(***************************************************************************)
(* src/goal_tree.py, the in-place variant: one Goal per statement, with    *)
(* its body of and-sets, its truth and its parents.  The tree is the map   *)
(* head -> truth; body and parents are read off the rule table.            *)
(***************************************************************************)
\* src/three_valued_logic.py: or3, one pass with an unknown flag
Goal_or3(ls) ==
    IF \E k \in DOMAIN ls : ls[k] = TT THEN TT
    ELSE IF \E k \in DOMAIN ls : ls[k] = NN THEN NN
    ELSE FF

\* src/three_valued_logic.py: and3, one pass with an unknown flag
Goal_and3(ls) ==
    IF \E k \in DOMAIN ls : ls[k] = FF THEN FF
    ELSE IF \E k \in DOMAIN ls : ls[k] = NN THEN NN
    ELSE TT

\* GoalTree.__init__: every Goal starts with truth None
Goal_init(rules) == [head \in RulesFacts(rules) |-> NN]

\* step 4 of GoalTree.__init__: g is a parent of every member of its body
Goal_parents(rules, head) ==
    {g \in DOMAIN rules : \E k \in DOMAIN rules[g] : head \in rules[g][k]}

Goal_is_leaf(rules, head) ==
    IF head \in DOMAIN rules THEN rules[head] = << >> ELSE TRUE

\* [n.truth for n in and_set]
Goal_and_set_truths(truths, members) ==
    [i \in DOMAIN members |-> truths[members[i]]]

Goal_eval_body(rules, truths, head) ==
    IF Goal_is_leaf(rules, head) THEN NN
    ELSE Goal_or3([k \in DOMAIN rules[head] |->
                     Goal_and3(Goal_and_set_truths(truths,
                                                   SetToSeq(rules[head][k])))])

\* the parents in the order the set hands them out: either way round
Goal_parent_order(rules, head, backwards) ==
    LET ps == SetToSeq(Goal_parents(rules, head))
    IN IF backwards THEN [i \in DOMAIN ps |-> ps[Len(ps) + 1 - i]] ELSE ps

\* Goal._update(re_eval): the truths after the call
RECURSIVE Goal_update(_, _, _, _, _), Goal_update_parents(_, _, _, _)
Goal_update(rules, truths, head, re_eval, backwards) ==
    IF re_eval /\ Goal_eval_body(rules, truths, head) = truths[head]
    THEN truths
    ELSE CHOOSE res \in
            {Goal_update_parents(rules, ts, ps, backwards) :
                ts \in {IF re_eval
                        THEN [truths EXCEPT
                                ![head] = Goal_eval_body(rules, truths, head)]
                        ELSE truths},
                ps \in {Goal_parent_order(rules, head, backwards)}} :
            TRUE

\* for parent in self.parents: parent._update()
Goal_update_parents(rules, truths, ps, backwards) ==
    IF ps = << >> THEN truths
    ELSE CHOOSE res \in
            {Goal_update_parents(rules, ts, rest, backwards) :
                ts \in {CHOOSE r \in {Goal_update(rules, t0, parent, TRUE,
                                                   backwards) :
                                         t0 \in {truths},
                                         parent \in {Head(ps)}} : TRUE},
                rest \in {Tail(ps)}} :
            TRUE

\* a variant that sets the truth and tells no parent
Goal_set_no_update(rules, truths, head, truth, backwards) ==
    [truths EXCEPT ![head] = truth]

\* Goal.set(truth): self.truth = truth; self._update(False)
Goal_set(rules, truths, head, truth, backwards) ==
    CHOOSE res \in
        {Goal_update(rules, ts, head, FALSE, backwards) :
            ts \in {[truths EXCEPT ![head] = truth]}} :
        TRUE

(***************************************************************************)
(* The rule tables and exclusive groups the model runs on.                 *)
(***************************************************************************)
Rules_bird ==
    [penguin |-> <<{"bird", "swims"}>>,
     bird |-> <<{"feathers"}, {"flies"}>>,
     albatross |-> <<{"bird", "good flyer"}>>]

Rules_chain == [A |-> <<{"B"}>>, B |-> <<{"C"}>>]

Rules_groups == [F |-> <<{"A", "B", "C"}, {"D"}>>, A |-> <<{"S"}>>]

Groups_ABC == <<{"A", "B", "C"}>>

Rules_pruned_AND == [A |-> <<{"B", "C", "D"}, {"E"}>>, E |-> <<{"D"}>>]

Rules_pruned_OR == [A |-> <<{"B"}, {"C"}, {"D"}>>, E |-> <<{"D"}>>]

Rules_roots == [A |-> << >>, B |-> << >>]

Rules_shared == [A |-> <<{"F", "E"}>>, B |-> <<{"F", "G"}>>]

Rules_starfish ==
    [starfish |-> <<{"is coral-pink", "has a cone-shaped head"},
                    {"is coral-pink", "has red dots across its body"}>>]

\* two leaves under a decided and-node, each exclusive with a third leaf
Rules_two_pruned == [A |-> <<{"B", "C", "D"}>>, E |-> <<{"F"}>>]

Groups_CF_DF == <<{"C", "F"}, {"D", "F"}>>

NoGroups == << >>

\* a GoalTree is built from a rule table and a tuple of exclusive groups
Config(r, g) == [rules |-> r, exclusive_groups |-> g]

SessionConfigs ==
    {Config(Rules_chain, NoGroups),
     Config(Rules_chain, <<{"A", "X"}>>),
     Config(Rules_groups, Groups_ABC),
     Config(Rules_pruned_AND, NoGroups),
     Config(Rules_pruned_OR, <<{"A", "E"}>>),
     Config(Rules_roots, NoGroups),
     Config(Rules_roots, <<{"A", "B"}>>),
     Config(Rules_starfish, NoGroups)}

BuildConfigs ==
    SessionConfigs \cup
    {Config(Rules_bird, NoGroups),
     Config(Rules_groups, <<{"A", "B"}, {"B", "C"}>>),
     Config(Rules_pruned_OR, NoGroups),
     Config(Rules_shared, NoGroups)}

\* the trees questions are rated on
RateConfigs ==
    SessionConfigs \cup
    {Config(Rules_pruned_AND, <<{"C", "D"}>>),
     Config(Rules_two_pruned, Groups_CF_DF)}

\* test_update_guaranteed: F is in every and-set / F would make two roots true
Rules_guaranteed_false == [A |-> <<{"F"}, {"C"}>>, B |-> <<{"F"}, {"D"}>>]

\* the trees update_guaranteed runs on
GuaranteedConfigs ==
    {Config(Rules_shared, NoGroups),
     Config(Rules_guaranteed_false, NoGroups),
     Config(Rules_chain, <<{"A", "X"}>>),
     Config(Rules_pruned_OR, <<{"A", "E"}>>),
     Config(Rules_roots, <<{"A", "B"}>>)}

\* the tables question sessions run on: each has two roots, so that
\* solution() is None at the start
QuestionConfigs ==
    {Config(Rules_bird, NoGroups),
     Config(Rules_guaranteed_false, NoGroups),
     Config(Rules_pruned_OR, <<{"A", "E"}>>),
     Config(Rules_roots, <<{"A", "B"}>>),
     Config(Rules_shared, NoGroups),
     Config(Rules_shared, <<{"A", "X"}>>),
     Config(Rules_two_pruned, Groups_CF_DF)}

\* test_set_truth_bubbles_upward
Rules_goal_bird ==
    [penguin |-> <<{"bird", "swims", "doesn't fly"}>>,
     bird |-> <<{"feathers"}, {"flies", "lays eggs"}>>,
     albatross |-> <<{"bird", "good flyer"}>>]

\* X reaches R through both P and Q
Rules_goal_diamond ==
    [R |-> <<{"P", "Q"}>>, P |-> <<{"X"}>>, Q |-> <<{"X"}, {"Y"}>>]

\* the rule tables of the in-place variant: no and-set is empty
GoalTables == {Rules_goal_bird, Rules_goal_diamond, Rules_pruned_AND, Rules_shared}

\* the assertion maps over the facts of a rule table: fact -> True / False
AssertionMaps(facts, max) ==
    UNION {[S -> {TT, FF}] : S \in {T \in SUBSET facts : Cardinality(T) <= max}}

(***************************************************************************)
(* State.                                                                  *)
(***************************************************************************)
VARIABLES
    rules,             \* the rule table
    exclusive_groups,  \* the tuple of exclusive groups
    snaps,             \* the GoalTree snapshots held, in order of creation
    last,              \* the last set() call: receiver, argument, outcome
    pc,                \* where the construction of one GoalTree stands
    self_assertions,   \* GoalTree.assertions of the tree under construction
    dag,               \* the dag update_truth_with_groups is given
    assertions,        \* the assertions variable of its loop
    new_dag,           \* the output of the loop's last update_truth
    iters,             \* the passes of the loop so far (saturating at MaxIter)
    out_dag,           \* GoalTree.dag once __post_init__ is through
    sol,               \* the result of solution(gt.dag)
    other,             \* a second DAG object, compared with dag by ==
    ls,                \* the collection or3 / and3 is given
    value              \* the result of the last call of a pure function

vars == <<rules, exclusive_groups, snaps, last, pc, self_assertions, dag,
          assertions, new_dag, iters, out_dag, sol, other, ls, value>>

callVars == <<other, ls, value>>

buildVars == <<pc, self_assertions, dag, assertions, new_dag, iters, out_dag, sol>>

sessionVars == <<snaps, last>>

NoCall == [n |-> 0, recv |-> 0, new_assertions |-> << >>, outcome |-> "none"]

NoSol == [raised |-> FALSE, value |-> NoSolution]

NoValue == "<no call>"

(***************************************************************************)
(* Sessions: a GoalTree(rules, groups) and the snapshots set() makes of it *)
(***************************************************************************)
\* a variant that updates the receiver in place
set_result_in_place(held, recv, gt) == [held EXCEPT ![recv] = gt]

\* set() returns a new object; the snapshots held so far stay as they are
set_result(held, recv, gt) == Append(held, gt)

Snapshot(r) == [assertions |-> r.assertions, dag |-> r.dag]

\* the web session's current tree: the global gt, rebound by every set()
\* that returns
app_gt == snaps[Len(snaps)]

Call(i, new, outcome) ==
    [n |-> last.n + 1, recv |-> i, new_assertions |-> new, outcome |-> outcome]

Init ==
    /\ \E c \in SessionConfigs :
          /\ rules = c.rules
          /\ exclusive_groups = c.exclusive_groups
          /\ snaps = <<Snapshot(GoalTree(c.rules, c.exclusive_groups, << >>))>>
    /\ last = NoCall
    /\ pc = "session"
    /\ self_assertions = << >>
    /\ dag = EmptyDAG
    /\ assertions = << >>
    /\ new_dag = EmptyDAG
    /\ iters = 0
    /\ out_dag = EmptyDAG
    /\ sol = NoSol
    /\ other = EmptyDAG
    /\ ls = << >>
    /\ value = NoValue

CanCall == pc = "session" /\ last.outcome # "running" /\ last.n < MaxCalls

\* r is GoalTree_set(rules, exclusive_groups, snaps[i], new)
SetReturns(i, new, r) ==
    /\ r.outcome = "returned"
    /\ snaps' = set_result(snaps, i, Snapshot(r))
    /\ last' = Call(i, new, "returned")
    /\ UNCHANGED <<callVars, rules, exclusive_groups, buildVars>>

\* a variant that records the rejected answer on the receiver's dag
SetRaises_records_answer(i, new, r) ==
    /\ r.outcome = "raised"
    /\ snaps' = Append(snaps, [assertions |-> set_assertions(snaps[i].assertions, new),
                               dag |-> snaps[i].dag])
    /\ last' = Call(i, new, "raised")
    /\ UNCHANGED <<callVars, rules, exclusive_groups, buildVars>>

SetRaises(i, new, r) ==
    /\ r.outcome = "raised"
    /\ last' = Call(i, new, "raised")
    /\ UNCHANGED <<callVars, rules, exclusive_groups, snaps, buildVars>>

\* the exclusion loop never ends: the call does not come back
SetHangs(i, new, r) ==
    /\ r.outcome = "running"
    /\ last' = Call(i, new, "running")
    /\ UNCHANGED <<callVars, rules, exclusive_groups, snaps, buildVars>>

Next ==
    /\ CanCall
    /\ \E i \in 1..Len(snaps),
          new \in AssertionMaps(RulesFacts(rules), MaxBatch) \ {<< >>} :
          LET r == GoalTree_set(rules, exclusive_groups, snaps[i], new)
          IN \/ SetReturns(i, new, r)
             \/ SetRaises(i, new, r)
             \/ SetHangs(i, new, r)

Spec == Init /\ [][Next]_vars

(***************************************************************************)
(* The construction of one GoalTree(rules, groups, assertions), pass by    *)
(* pass of the exclusion loop, and solution() on the finished tree.        *)
(***************************************************************************)
InitBuild ==
    /\ \E c \in BuildConfigs :
          /\ rules = c.rules
          /\ exclusive_groups = c.exclusive_groups
          /\ \E a \in AssertionMaps(RulesFacts(c.rules),
                                    Cardinality(RulesFacts(c.rules))) :
                /\ self_assertions = a
                /\ assertions = a
    /\ snaps = << >>
    /\ last = NoCall
    /\ pc = "start"
    /\ dag = EmptyDAG
    /\ new_dag = EmptyDAG
    /\ iters = 0
    /\ out_dag = EmptyDAG
    /\ sol = NoSol
    /\ other = EmptyDAG
    /\ ls = << >>
    /\ value = NoValue

\* dag = construct_dag(self.rules)
Construct ==
    /\ pc = "start"
    /\ ~construct_dag(rules).raised
    /\ dag' = construct_dag(rules).dag
    /\ pc' = "loop"
    /\ UNCHANGED <<callVars, rules, exclusive_groups, sessionVars, self_assertions,
                   assertions, new_dag, iters, out_dag, sol>>

\* new_dag = update_truth(dag, assertions)
UpdateTruth ==
    /\ pc = "loop"
    /\ new_dag' = update_truth(dag, assertions)
    /\ iters' = IF iters < MaxIter THEN iters + 1 ELSE iters
    /\ pc' = "check"
    /\ UNCHANGED <<callVars, rules, exclusive_groups, sessionVars, self_assertions,
                   dag, assertions, out_dag, sol>>

GroupsRaise ==
    /\ pc = "check"
    /\ utwg_raises(dag_truths(new_dag), exclusive_groups)
    /\ pc' = "raised"
    /\ UNCHANGED <<callVars, rules, exclusive_groups, sessionVars, self_assertions,
                   dag, assertions, new_dag, iters, out_dag, sol>>

GroupsBreak ==
    /\ pc = "check"
    /\ ~utwg_raises(dag_truths(new_dag), exclusive_groups)
    /\ utwg_breaks(dag_truths(new_dag), exclusive_groups)
    /\ pc' = "returned"
    /\ UNCHANGED <<callVars, rules, exclusive_groups, sessionVars, self_assertions,
                   dag, assertions, new_dag, iters, out_dag, sol>>

GroupsContinue ==
    /\ pc = "check"
    /\ ~utwg_raises(dag_truths(new_dag), exclusive_groups)
    /\ ~utwg_breaks(dag_truths(new_dag), exclusive_groups)
    /\ assertions' = utwg_new_truths(dag_truths(new_dag),
                        utwg_excluded_facts(dag_truths(new_dag), exclusive_groups))
    /\ pc' = "loop"
    /\ UNCHANGED <<callVars, rules, exclusive_groups, sessionVars, self_assertions,
                   dag, new_dag, iters, out_dag, sol>>

\* self.dag = update_pruned(update_truth_with_groups(...))
Prune ==
    /\ pc = "returned"
    /\ out_dag' = update_pruned(new_dag)
    /\ pc' = "done"
    /\ UNCHANGED <<callVars, rules, exclusive_groups, sessionVars, self_assertions,
                   dag, assertions, new_dag, iters, sol>>

\* solution(gt.dag)
Solve ==
    /\ pc = "done"
    /\ sol' = solution(out_dag)
    /\ pc' = "solved"
    /\ UNCHANGED <<callVars, rules, exclusive_groups, sessionVars, self_assertions,
                   dag, assertions, new_dag, iters, out_dag>>

NextBuild ==
    \/ Construct
    \/ UpdateTruth
    \/ GroupsRaise
    \/ GroupsBreak
    \/ GroupsContinue
    \/ Prune
    \/ Solve

SpecBuild == InitBuild /\ [][NextBuild]_vars

(***************************************************************************)
(* One DAG object under add_vertex, add_edge, remove_edge, successors and  *)
(* predecessors calls, each of which returns or raises.                    *)
(***************************************************************************)
DagVertices == {"bird", "feathers", "swims"}

TargetSeqs == UNION {[1..n -> DagVertices] : n \in 0..MaxTargets}

\* successors(vertex) / predecessors(vertex) as called from outside:
\* [raised, result]
lookup(d, op, vertex) ==
    IF ~validate_vertex(d, <<vertex>>) THEN [raised |-> TRUE, result |-> {}]
    ELSE [raised |-> FALSE,
          result |-> IF op = "successors" THEN successors(d, vertex)
                     ELSE predecessors(d, vertex)]

DagCall(op, v_from, v_tos, raised, result) ==
    [op |-> op, v_from |-> v_from, v_tos |-> v_tos,
     outcome |-> IF raised THEN "raised" ELSE "returned", result |-> result]

NoDagCall == DagCall("none", "", << >>, FALSE, {})

DagUnchanged ==
    UNCHANGED <<callVars, rules, exclusive_groups, snaps, pc, self_assertions,
                assertions, new_dag, iters, out_dag, sol>>

InitDag ==
    /\ dag = EmptyDAG
    /\ last = NoDagCall
    /\ pc = "dag"
    /\ rules = << >>
    /\ exclusive_groups = NoGroups
    /\ snaps = << >>
    /\ self_assertions = << >>
    /\ assertions = << >>
    /\ new_dag = EmptyDAG
    /\ iters = 0
    /\ out_dag = EmptyDAG
    /\ sol = NoSol
    /\ other = EmptyDAG
    /\ ls = << >>
    /\ value = NoValue

AddVertex(vtx) ==
    /\ pc = "dag"
    /\ dag' = add_vertex(dag, vtx)
    /\ last' = DagCall("add_vertex", vtx, << >>, FALSE, {})
    /\ DagUnchanged

AddEdge(v_from, v_tos) ==
    /\ pc = "dag"
    /\ ~add_edge(dag, v_from, v_tos).raised
    /\ dag' = add_edge(dag, v_from, v_tos).dag
    /\ last' = DagCall("add_edge", v_from, v_tos, FALSE, {})
    /\ DagUnchanged

\* the exception leaves the object as the call had made it by then
AddEdgeRaises(v_from, v_tos) ==
    /\ pc = "dag"
    /\ add_edge(dag, v_from, v_tos).raised
    /\ dag' = add_edge(dag, v_from, v_tos).dag
    /\ last' = DagCall("add_edge", v_from, v_tos, TRUE, {})
    /\ DagUnchanged

RemoveEdge(v_from, v_to) ==
    /\ pc = "dag"
    /\ ~remove_edge(dag, v_from, v_to).raised
    /\ dag' = remove_edge(dag, v_from, v_to).dag
    /\ last' = DagCall("remove_edge", v_from, <<v_to>>, FALSE, {})
    /\ DagUnchanged

RemoveEdgeRaises(v_from, v_to) ==
    /\ pc = "dag"
    /\ remove_edge(dag, v_from, v_to).raised
    /\ dag' = remove_edge(dag, v_from, v_to).dag
    /\ last' = DagCall("remove_edge", v_from, <<v_to>>, TRUE, {})
    /\ DagUnchanged

Lookup(op, vtx) ==
    /\ pc = "dag"
    /\ ~lookup(dag, op, vtx).raised
    /\ last' = DagCall(op, vtx, << >>, FALSE, lookup(dag, op, vtx).result)
    /\ UNCHANGED dag
    /\ DagUnchanged

LookupRaises(op, vtx) ==
    /\ pc = "dag"
    /\ lookup(dag, op, vtx).raised
    /\ last' = DagCall(op, vtx, << >>, TRUE, {})
    /\ UNCHANGED dag
    /\ DagUnchanged

NextDag ==
    \/ \E vtx \in DagVertices : AddVertex(vtx)
    \/ \E v_from \in DagVertices, v_tos \in TargetSeqs : AddEdge(v_from, v_tos)
    \/ \E v_from \in DagVertices, v_tos \in TargetSeqs : AddEdgeRaises(v_from, v_tos)
    \/ \E v_from \in DagVertices, v_to \in DagVertices : RemoveEdge(v_from, v_to)
    \/ \E v_from \in DagVertices, v_to \in DagVertices : RemoveEdgeRaises(v_from, v_to)
    \/ \E op \in {"successors", "predecessors"}, vtx \in DagVertices : Lookup(op, vtx)
    \/ \E op \in {"successors", "predecessors"}, vtx \in DagVertices :
          LookupRaises(op, vtx)

SpecDag == InitDag /\ [][NextDag]_vars

(***************************************************************************)
(* Two DAG objects of goal-tree nodes, built by add_vertex, add_edge and   *)
(* remove_edge calls in any order and compared with ==.                    *)
(***************************************************************************)
EqVertices ==
    {FactNode("bird", NN, FALSE), FactNode("bird", TT, FALSE),
     FactNode("bird", NN, TRUE)}

EqUnchanged ==
    UNCHANGED <<ls, value, rules, exclusive_groups, snaps, last, pc,
                self_assertions, assertions, new_dag, iters, out_dag, sol>>

\* the call changes the object it is made on and not the other one
EqCall(which, d) ==
    /\ IF which = "self" THEN dag' = d /\ UNCHANGED other
       ELSE other' = d /\ UNCHANGED dag
    /\ EqUnchanged

EqObject(which) == IF which = "self" THEN dag ELSE other

InitEq ==
    /\ dag = EmptyDAG
    /\ other = EmptyDAG
    /\ pc = "eq"
    /\ last = NoDagCall
    /\ rules = << >>
    /\ exclusive_groups = NoGroups
    /\ snaps = << >>
    /\ self_assertions = << >>
    /\ assertions = << >>
    /\ new_dag = EmptyDAG
    /\ iters = 0
    /\ out_dag = EmptyDAG
    /\ sol = NoSol
    /\ ls = << >>
    /\ value = NoValue

EqAddVertex(which, vtx) ==
    /\ pc = "eq"
    /\ EqCall(which, add_vertex(EqObject(which), vtx))

EqAddEdge(which, v_from, v_to) ==
    /\ pc = "eq"
    /\ ~add_edge(EqObject(which), v_from, <<v_to>>).raised
    /\ EqCall(which, add_edge(EqObject(which), v_from, <<v_to>>).dag)

EqRemoveEdge(which, v_from, v_to) ==
    /\ pc = "eq"
    /\ ~remove_edge(EqObject(which), v_from, v_to).raised
    /\ EqCall(which, remove_edge(EqObject(which), v_from, v_to).dag)

NextEq ==
    \E which \in {"self", "other"} :
        \/ \E vtx \in EqVertices : EqAddVertex(which, vtx)
        \/ \E v_from \in EqVertices, v_to \in EqVertices :
              EqAddEdge(which, v_from, v_to)
        \/ \E v_from \in EqVertices, v_to \in EqVertices :
              EqRemoveEdge(which, v_from, v_to)

SpecEq == InitEq /\ [][NextEq]_vars

(***************************************************************************)
(* construct_dag on rule tables: every table over three facts with at most *)
(* MaxOrSet non-empty AND-sets per fact, cyclic ones included, and the     *)
(* tables of BuildConfigs.                                                 *)
(***************************************************************************)
ConstructFacts == {"A", "B", "C"}

AndSets == SUBSET ConstructFacts \ {{}}

OrSets == UNION {[1..n -> AndSets] : n \in 0..MaxOrSet}

\* the tables of one fact with two or three AND-sets, in every order
EnumerateTables ==
    UNION {[{"A"} -> [1..n -> SUBSET {"B", "C"} \ {{}}]] : n \in 2..3}

ConstructTables ==
    UNION {[K -> OrSets] : K \in SUBSET ConstructFacts}
    \cup EnumerateTables
    \cup {c.rules : c \in BuildConfigs}

InitConstruct ==
    /\ rules \in ConstructTables
    /\ pc = "start"
    /\ exclusive_groups = NoGroups
    /\ self_assertions = << >>
    /\ assertions = << >>
    /\ snaps = << >>
    /\ last = NoCall
    /\ dag = EmptyDAG
    /\ new_dag = EmptyDAG
    /\ iters = 0
    /\ out_dag = EmptyDAG
    /\ sol = NoSol
    /\ other = EmptyDAG
    /\ ls = << >>
    /\ value = NoValue

\* dag.add_edge raises inside construct_dag: no dag comes back
ConstructRaises ==
    /\ pc = "start"
    /\ construct_dag(rules).raised
    /\ pc' = "construct_raised"
    /\ UNCHANGED <<callVars, rules, exclusive_groups, sessionVars, self_assertions,
                   dag, assertions, new_dag, iters, out_dag, sol>>

NextConstruct ==
    \/ Construct
    \/ ConstructRaises

SpecConstruct == InitConstruct /\ [][NextConstruct]_vars

(***************************************************************************)
(* or3 and and3 called on a collection of truth values.                    *)
(***************************************************************************)
TruthLists == UNION {[1..n -> Truth3] : n \in 0..MaxLen}

LogicUnchanged ==
    UNCHANGED <<other, ls, rules, exclusive_groups, snaps, last,
                self_assertions, dag, assertions, new_dag, iters, out_dag, sol>>

InitLogic ==
    /\ ls \in TruthLists
    /\ value = NoValue
    /\ pc = "logic"
    /\ rules = << >>
    /\ exclusive_groups = NoGroups
    /\ snaps = << >>
    /\ last = NoCall
    /\ self_assertions = << >>
    /\ dag = EmptyDAG
    /\ assertions = << >>
    /\ new_dag = EmptyDAG
    /\ iters = 0
    /\ out_dag = EmptyDAG
    /\ sol = NoSol
    /\ other = EmptyDAG

Or3 ==
    /\ pc = "logic"
    /\ value' = or3(ls)
    /\ pc' = "or3"
    /\ LogicUnchanged

And3 ==
    /\ pc = "logic"
    /\ value' = and3(ls)
    /\ pc' = "and3"
    /\ LogicUnchanged

NextLogic ==
    \/ Or3
    \/ And3

SpecLogic == InitLogic /\ [][NextLogic]_vars

(***************************************************************************)
(* rated_facts: node_value on the unknown, un-pruned leaves of a tree      *)
(* built with any assertions.                                              *)
(***************************************************************************)
InitRate ==
    /\ \E c \in RateConfigs :
          /\ rules = c.rules
          /\ exclusive_groups = c.exclusive_groups
          /\ \E a \in AssertionMaps(RulesFacts(c.rules),
                                    Cardinality(RulesFacts(c.rules))) :
                LET gt == GoalTree(c.rules, c.exclusive_groups, a)
                IN /\ gt.outcome = "returned"
                   /\ snaps = <<Snapshot(gt)>>
    /\ last = NoCall
    /\ pc = "rate"
    /\ self_assertions = << >>
    /\ dag = EmptyDAG
    /\ assertions = << >>
    /\ new_dag = EmptyDAG
    /\ iters = 0
    /\ out_dag = EmptyDAG
    /\ sol = NoSol
    /\ other = EmptyDAG
    /\ ls = << >>
    /\ value = NoValue

\* the leaves rated_facts does not skip
RatedLeaves == {n \in all_terminals(app_gt.dag) : n.truth = NN /\ ~n.pruned}

RateUnchanged ==
    UNCHANGED <<other, ls, rules, exclusive_groups, snaps, self_assertions,
                dag, assertions, new_dag, iters, out_dag, sol>>

\* r is node_value(gt, node)
NodeValue(node, r) ==
    /\ r.outcome = "returned"
    /\ value' = r
    /\ last' = [NoCall EXCEPT !.new_assertions = (node.fact :> NN)]
    /\ pc' = "rated"
    /\ RateUnchanged

\* set() raises on a group, or sqrt on a negative product
NodeValueRaises(node, r) ==
    /\ r.outcome \in {"raised", "domain_error"}
    /\ value' = r
    /\ last' = [NoCall EXCEPT !.new_assertions = (node.fact :> NN)]
    /\ pc' = "rated"
    /\ RateUnchanged

\* set() does not come back
NodeValueHangs(node, r) ==
    /\ r.outcome = "running"
    /\ value' = r
    /\ last' = [NoCall EXCEPT !.new_assertions = (node.fact :> NN)]
    /\ pc' = "rated"
    /\ RateUnchanged

NextRate ==
    /\ pc = "rate"
    /\ \E node \in RatedLeaves :
          \E r \in {node_value(rules, exclusive_groups, app_gt, node)} :
              \/ NodeValue(node, r)
              \/ NodeValueRaises(node, r)
              \/ NodeValueHangs(node, r)

SpecRate == InitRate /\ [][NextRate]_vars

(***************************************************************************)
(* update_guaranteed on the dag of a tree built with any assertions, and   *)
(* the tree built with check_guaranteed=True and then set().               *)
(***************************************************************************)
InitGuaranteed ==
    /\ \E c \in GuaranteedConfigs :
          /\ rules = c.rules
          /\ exclusive_groups = c.exclusive_groups
          /\ \E a \in AssertionMaps(RulesFacts(c.rules),
                                    Cardinality(RulesFacts(c.rules))) :
                \E gt \in {GoalTree(c.rules, c.exclusive_groups, a)} :
                   /\ gt.outcome = "returned"
                   /\ assertions = a
                   /\ dag = gt.dag
    /\ snaps = << >>
    /\ last = NoCall
    /\ pc = "guaranteed"
    /\ self_assertions = << >>
    /\ new_dag = EmptyDAG
    /\ iters = 0
    /\ out_dag = EmptyDAG
    /\ sol = NoSol
    /\ other = EmptyDAG
    /\ ls = << >>
    /\ value = NoValue

GuaranteedUnchanged ==
    UNCHANGED <<other, ls, rules, exclusive_groups, self_assertions, dag,
                assertions, new_dag, iters, out_dag, sol>>

\* a GoalTree object: its assertions, its dag and its check_guaranteed
GuaranteedSnapshot(r, check_guaranteed) ==
    [assertions |-> r.assertions, dag |-> r.dag,
     check_guaranteed |-> check_guaranteed]

\* r is update_guaranteed(dag, assertions, exclusive_groups)
UpdateGuaranteed(r) ==
    /\ r.outcome = "returned"
    /\ value' = r
    /\ pc' = "ug_returned"
    /\ UNCHANGED <<snaps, last>>
    /\ GuaranteedUnchanged

UpdateGuaranteedRaises(r) ==
    /\ r.outcome = "raised"
    /\ value' = r
    /\ pc' = "ug_raised"
    /\ UNCHANGED <<snaps, last>>
    /\ GuaranteedUnchanged

\* an exclusion loop inside does not end
UpdateGuaranteedHangs(r) ==
    /\ r.outcome = "running"
    /\ value' = r
    /\ pc' = "ug_running"
    /\ UNCHANGED <<snaps, last>>
    /\ GuaranteedUnchanged

\* r is GoalTree(rules, exclusive_groups, assertions, check_guaranteed=True)
NewGuaranteed(r) ==
    /\ r.outcome = "returned"
    /\ snaps' = <<GuaranteedSnapshot(r, TRUE)>>
    /\ pc' = "built"
    /\ UNCHANGED <<value, last>>
    /\ GuaranteedUnchanged

NewGuaranteedFails(r) ==
    /\ r.outcome # "returned"
    /\ pc' = "build_" \o r.outcome
    /\ UNCHANGED <<value, last, snaps>>
    /\ GuaranteedUnchanged

\* r is snaps[1].set(new): the new GoalTree gets rules, groups, merged
\* assertions and dag, and the default check_guaranteed
SetGuaranteed(new, r) ==
    /\ r.outcome = "returned"
    /\ snaps' = Append(snaps, GuaranteedSnapshot(r, FALSE))
    /\ last' = [NoCall EXCEPT !.new_assertions = new]
    /\ pc' = "set"
    /\ UNCHANGED value
    /\ GuaranteedUnchanged

SetGuaranteedFails(new, r) ==
    /\ r.outcome # "returned"
    /\ last' = [NoCall EXCEPT !.new_assertions = new]
    /\ pc' = "set_" \o r.outcome
    /\ UNCHANGED <<value, snaps>>
    /\ GuaranteedUnchanged

NextGuaranteed ==
    \/ /\ pc = "guaranteed"
       /\ \E r \in {update_guaranteed(dag, assertions, exclusive_groups)} :
             \/ UpdateGuaranteed(r)
             \/ UpdateGuaranteedRaises(r)
             \/ UpdateGuaranteedHangs(r)
    \/ /\ pc = "guaranteed"
       /\ \E r \in {GoalTree_guaranteed(rules, exclusive_groups, assertions)} :
             \/ NewGuaranteed(r)
             \/ NewGuaranteedFails(r)
    \/ /\ pc = "built"
       /\ \E new \in AssertionMaps(RulesFacts(rules), MaxAnswers) \ {<< >>} :
             \E r \in {GoalTree_set(rules, exclusive_groups, snaps[1], new)} :
                \/ SetGuaranteed(new, r)
                \/ SetGuaranteedFails(new, r)

SpecGuaranteed == InitGuaranteed /\ [][NextGuaranteed]_vars

(***************************************************************************)
(* app.py: a question session.  reset_tree builds GoalTree(rules, groups); *)
(* while solution() returns None the views offer the unknown, un-pruned    *)
(* leaves, and set_fact_truth rebinds gt to gt.set({fact: truth}).         *)
(***************************************************************************)
InitQuestions ==
    /\ \E c \in QuestionConfigs :
          /\ rules = c.rules
          /\ exclusive_groups = c.exclusive_groups
          /\ snaps = <<Snapshot(GoalTree(c.rules, c.exclusive_groups, << >>))>>
    /\ last = NoCall
    /\ pc = "ask"
    /\ self_assertions = << >>
    /\ dag = EmptyDAG
    /\ assertions = << >>
    /\ new_dag = EmptyDAG
    /\ iters = 0
    /\ out_dag = EmptyDAG
    /\ sol = NoSol
    /\ other = EmptyDAG
    /\ ls = << >>
    /\ value = NoValue

\* solution(gt.dag) returns None: the views go on to the questions
Asking ==
    /\ pc = "ask"
    /\ \E s \in {solution(app_gt.dag)} : ~s.raised /\ s.value = NoSolution

QuestionsUnchanged ==
    UNCHANGED <<callVars, rules, exclusive_groups, self_assertions, dag,
                assertions, new_dag, iters, out_dag, sol>>

\* gt = gt.set({fact: truth}); r is the new tree
Answer(new, r) ==
    /\ r.outcome = "returned"
    /\ snaps' = <<Snapshot(r)>>
    /\ last' = Call(1, new, "returned")
    /\ pc' = "ask"
    /\ QuestionsUnchanged

\* set() raises on an exclusive group: gt is not rebound
AnswerRaises(new, r) ==
    /\ r.outcome = "raised"
    /\ last' = Call(1, new, "raised")
    /\ pc' = "failed"
    /\ UNCHANGED snaps
    /\ QuestionsUnchanged

\* the exclusion loop never ends: the request does not come back
AnswerHangs(new, r) ==
    /\ r.outcome = "running"
    /\ last' = Call(1, new, "running")
    /\ pc' = "hung"
    /\ UNCHANGED snaps
    /\ QuestionsUnchanged

NextQuestions ==
    /\ Asking
    /\ \E node \in RatedLeaves, truth \in {TT, FF} :
          \E r \in {GoalTree_set(rules, exclusive_groups, app_gt,
                                  (node.fact :> truth))} :
              \/ Answer((node.fact :> truth), r)
              \/ AnswerRaises((node.fact :> truth), r)
              \/ AnswerHangs((node.fact :> truth), r)

SpecQuestions == InitQuestions /\ [][NextQuestions]_vars

\* whoever is asked a question answers it
SpecQuestionsFair == SpecQuestions /\ WF_vars(NextQuestions)

(***************************************************************************)
(* The in-place variant: Goal.set on the leaves of one GoalTree.  value is *)
(* the truth of every Goal, assertions what the leaves were last set to,   *)
(* self_assertions the same before the last call.                          *)
(***************************************************************************)
InitGoal ==
    /\ \E r \in GoalTables :
          /\ rules = r
          /\ value = Goal_init(r)
    /\ assertions = << >>
    /\ self_assertions = << >>
    /\ exclusive_groups = NoGroups
    /\ snaps = << >>
    /\ last = NoCall
    /\ pc = "goal"
    /\ dag = EmptyDAG
    /\ new_dag = EmptyDAG
    /\ iters = 0
    /\ out_dag = EmptyDAG
    /\ sol = NoSol
    /\ other = EmptyDAG
    /\ ls = << >>

\* g.get_node(head).set(truth)
GoalSet(head, truth, backwards) ==
    /\ pc = "goal"
    /\ Goal_is_leaf(rules, head)
    /\ value' = Goal_set(rules, value, head, truth, backwards)
    /\ self_assertions' = assertions
    /\ assertions' = Merge(assertions, (head :> truth))
    /\ last' = [NoCall EXCEPT !.new_assertions = (head :> truth)]
    /\ UNCHANGED <<other, ls, rules, exclusive_groups, snaps, pc, dag, new_dag,
                   iters, out_dag, sol>>

NextGoal ==
    \E head \in RulesFacts(rules), truth \in {TT, FF}, backwards \in BOOLEAN :
        GoalSet(head, truth, backwards)

SpecGoal == InitGoal /\ [][NextGoal]_vars

(***************************************************************************)
(* Properties.                                                             *)
(***************************************************************************)
KleeneOr(S) == IF TT \in S THEN TT ELSE IF NN \in S THEN NN ELSE FF

KleeneAnd(S) == IF FF \in S THEN FF ELSE IF NN \in S THEN NN ELSE TT

Asserted(a, f) == f \in DOMAIN a /\ a[f] # NN

\* what identifies a node: its kind and fact, or owning fact and ordinal
Ident(n) == [n EXCEPT !.truth = NN, !.pruned = FALSE]

NodeOf(d, id) == CHOOSE m \in vertices(d) : Ident(m) = id

FactTruth(d, f) == NodeOf(d, FactNode(f, NN, FALSE)).truth

RECURSIVE Descendants(_, _)
Descendants(d, n) ==
    successors(d, n) \cup UNION {Descendants(d, m) : m \in successors(d, n)}

Ancestors(d, n) == {m \in vertices(d) : n \in Descendants(d, m)}

\* the dag with the outgoing edges of v removed: v as a leaf
CutBelow(d, v) ==
    [graph |-> [d.graph EXCEPT ![v] = {}],
     graph_reverse |-> [u \in DOMAIN d.graph_reverse |-> d.graph_reverse[u] \ {v}]]

Without(a, f) == [g \in DOMAIN a \ {f} |-> a[g]]

\* C1: update_truth gives a leaf its assertion or unknown, a fact-node with
\* successors its assertion or else or3 of its successors' new truths, and an
\* and-node and3 of its successors' new truths; every node of the input has
\* its node in the output.
C1_UpdateTruthPerNode ==
    pc = "check" =>
        /\ {Ident(n) : n \in vertices(new_dag)} = {Ident(n) : n \in vertices(dag)}
        /\ \A n \in vertices(new_dag) :
              LET ts == {m.truth : m \in successors(new_dag, n)}
              IN IF ~isFactNode(n) THEN n.truth = KleeneAnd(ts)
                 ELSE IF Asserted(assertions, n.fact)
                      THEN n.truth = assertions[n.fact]
                      ELSE IF outdegree(dag, NodeOf(dag, Ident(n))) = 0
                           THEN n.truth = NN
                           ELSE n.truth = KleeneOr(ts)

C1_Witness ==
    /\ pc = "check"
    /\ \E n \in vertices(new_dag) :
          /\ isFactNode(n) /\ successors(new_dag, n) # {}
          /\ ~Asserted(assertions, n.fact) /\ n.truth = TT
    /\ \E n \in vertices(new_dag) : ~isFactNode(n) /\ n.truth = FF
    /\ \E n \in all_terminals(new_dag) : n.truth = FF

\* C2: an asserted derived fact has its asserted value; its ancestors have
\* the truths they would have if the fact were a leaf with that value; its
\* descendants have the truths they have without the assertion.
C2_AssertedDerivedFact ==
    pc = "check" =>
        \A n \in vertices(new_dag) :
            (isFactNode(n) /\ successors(new_dag, n) # {} /\ Asserted(assertions, n.fact)) =>
                LET asLeaf == update_truth(CutBelow(dag, NodeOf(dag, Ident(n))), assertions)
                    unasserted == update_truth(dag, Without(assertions, n.fact))
                IN /\ n.truth = assertions[n.fact]
                   /\ \A m \in Ancestors(new_dag, n) :
                         m.truth = NodeOf(asLeaf, Ident(m)).truth
                   /\ \A m \in Descendants(new_dag, n) :
                         m.truth = NodeOf(unasserted, Ident(m)).truth

C2_Witness ==
    /\ pc = "check"
    /\ iters = 1
    /\ \E n \in vertices(new_dag) :
          /\ isFactNode(n) /\ successors(new_dag, n) # {}
          /\ Asserted(assertions, n.fact)
          /\ n.truth = FF
          /\ \E m \in successors(new_dag, n) : m.truth = TT
          /\ \E m \in Ancestors(new_dag, n) : m.truth = FF

\* C3: with only leaf facts asserted, a derived fact's truth after
\* update_truth(construct_dag(rules), assertions) is or3 over its AND-sets of
\* and3 over the truths of the members, singleton AND-sets included.
LeafAssertionsOnly ==
    /\ \A f \in DOMAIN rules : Len(rules[f]) >= 1
    /\ \A f \in DOMAIN rules : \A k \in DOMAIN rules[f] : rules[f][k] # {}
    /\ DOMAIN assertions \cap DOMAIN rules = {}

C3_TruthIsOrOfAnds ==
    (pc = "check" /\ iters = 1 /\ LeafAssertionsOnly) =>
        \A f \in DOMAIN rules :
            FactTruth(new_dag, f) =
                KleeneOr({KleeneAnd({FactTruth(new_dag, m) : m \in rules[f][k]}) :
                          k \in DOMAIN rules[f]})

C3_Witness ==
    /\ pc = "check" /\ iters = 1 /\ LeafAssertionsOnly
    /\ rules = Rules_pruned_AND
    /\ FactTruth(new_dag, "A") = TT
    /\ FactTruth(new_dag, "B") = FF
    /\ FactTruth(new_dag, "E") = TT

\* C4: in the dag update_truth_with_groups returns, and in the dag of the
\* finished GoalTree, a group has at most one true member, and when it has one
\* every other member that is a fact of the dag is false.
GroupsHold(d) ==
    \A k \in DOMAIN exclusive_groups :
        LET members == exclusive_groups[k] \cap DOMAIN dag_truths(d)
            trues == {f \in members : FactTruth(d, f) = TT}
        IN /\ Cardinality(trues) <= 1
           /\ trues # {} => \A f \in members \ trues : FactTruth(d, f) = FF

C4_GroupsExclusive ==
    /\ pc \in {"returned", "done", "solved"} => GroupsHold(new_dag)
    /\ pc \in {"done", "solved"} => GroupsHold(out_dag)

C4_Witness ==
    /\ pc = "done"
    /\ rules = Rules_pruned_OR
    /\ exclusive_groups = <<{"A", "E"}>>
    /\ "E" \notin DOMAIN self_assertions
    /\ FactTruth(out_dag, "A") = TT
    /\ FactTruth(out_dag, "D") = NN
    /\ FactTruth(out_dag, "E") = FF

\* C5: a pass that finds two or more true members in one group raises: the
\* call ends there and no dag comes back.
TwoTrueInGroup(d) ==
    \E k \in DOMAIN exclusive_groups :
        Cardinality({f \in exclusive_groups[k] \cap DOMAIN dag_truths(d) :
                        FactTruth(d, f) = TT}) >= 2

C5_TwoTrueRaises ==
    [][(pc = "check" /\ TwoTrueInGroup(new_dag)) =>
          (pc' = "raised" /\ out_dag' = EmptyDAG)]_vars

C5_Witness ==
    /\ pc = "raised"
    /\ \E k \in DOMAIN exclusive_groups :
          \E f, g \in exclusive_groups[k] \cap DOMAIN dag_truths(new_dag) :
              /\ f # g
              /\ FactTruth(new_dag, f) = TT /\ f \notin DOMAIN self_assertions
              /\ FactTruth(new_dag, g) = TT /\ g \in DOMAIN self_assertions

\* C6: the exclusion loop makes no more passes than there are distinct facts.
DistinctFacts ==
    RulesFacts(rules) \cup DOMAIN self_assertions
        \cup UNION {exclusive_groups[k] : k \in DOMAIN exclusive_groups}

C6_PassesBounded == iters <= Cardinality(DistinctFacts)

\* C7 as stated: a root is never pruned; a non-root is pruned exactly when
\* each parent has a known truth or is pruned, whatever its own truth.
ParentsDecided(d, n) ==
    \A p \in predecessors(d, n) : p.truth # NN \/ p.pruned

C8_SolutionCases ==
    pc = "solved" =>
        LET roots == all_starts(out_dag)
            true == {r \in roots : r.truth = TT}
            false == {r \in roots : r.truth = FF}
            unknown == {r \in roots : r.truth = NN}
        IN /\ Cardinality(true) = 1 =>
                 ~sol.raised /\ \E r \in true : sol.value = r.fact
           /\ Cardinality(true) >= 2 => sol.raised
           /\ (true = {} /\ false = roots) => sol.raised
           /\ (true = {} /\ Cardinality(unknown) = 1) =>
                 ~sol.raised /\ \E r \in unknown : sol.value = r.fact
           /\ (true = {} /\ Cardinality(unknown) >= 2) =>
                 ~sol.raised /\ sol.value = NoSolution
           /\ (~sol.raised /\ sol.value # NoSolution) =>
                 \E r \in roots : r.fact = sol.value /\ r.truth # FF

C8_Witness ==
    /\ pc = "solved"
    /\ ~sol.raised
    /\ \E r \in all_starts(out_dag) : r.fact = sol.value /\ r.truth = NN
    /\ \E r \in all_starts(out_dag) : r.truth = FF

\* C9: set() returns a new snapshot whose assertions are the receiver's
\* merged with the new ones, the new value winning, and every snapshot held
\* before the call, the receiver included, is the same after it.
C9_SetLeavesSnapshots ==
    [][/\ \A i \in 1..Len(snaps) : i <= Len(snaps') /\ snaps'[i] = snaps[i]
       /\ Len(snaps') > Len(snaps) =>
             LET old == snaps[last'.recv].assertions
                 new == last'.new_assertions
                 res == snaps'[Len(snaps')].assertions
             IN /\ DOMAIN res = DOMAIN old \cup DOMAIN new
                /\ \A f \in DOMAIN res :
                      res[f] = IF f \in DOMAIN new THEN new[f] ELSE old[f]]_vars

C9_Witness ==
    /\ Len(snaps) = 3
    /\ last.recv = 2
    /\ snaps[2].dag # snaps[1].dag
    /\ snaps[3].dag # snaps[2].dag
    /\ \E f \in DOMAIN last.new_assertions \cap DOMAIN snaps[2].assertions :
          /\ last.new_assertions[f] # snaps[2].assertions[f]
          /\ snaps[3].assertions[f] = last.new_assertions[f]

\* C10: the dag of every snapshot a sequence of set() calls produces equals
\* the dag of a GoalTree built from scratch with the same rules, groups and
\* merged assertions.
C10_SetEqualsFromScratch ==
    \A i \in 1..Len(snaps) :
        LET fresh == GoalTree(rules, exclusive_groups, snaps[i].assertions)
        IN /\ fresh.outcome = "returned"
           /\ dag_eq(snaps[i].dag, fresh.dag)
           /\ dag_eq(fresh.dag, snaps[i].dag)
           /\ snaps[i].dag = fresh.dag

C10_Witness ==
    /\ Len(snaps) = 3
    /\ last.recv = 2
    /\ \E n \in vertices(snaps[2].dag) :
          /\ isFactNode(n) /\ n.fact \notin DOMAIN snaps[3].assertions
          /\ n.truth = TT
          /\ NodeOf(snaps[3].dag, Ident(n)).truth # TT
    /\ \E n \in vertices(snaps[2].dag) :
          n.pruned /\ ~NodeOf(snaps[3].dag, Ident(n)).pruned

\* C11: a set() that raises on an exclusive-group contradiction changes no
\* snapshot held, the receiver included, and leaves the web session's
\* current tree the last snapshot built; the next answer given to that tree
\* is merged with its assertions and with nothing of the rejected call.
C11_RaiseLeavesSession ==
    [][/\ (last'.outcome = "raised" /\ last'.n = last.n + 1) =>
             /\ snaps' = snaps
             /\ app_gt' = app_gt
       /\ (last.outcome = "raised" /\ last'.outcome = "returned"
              /\ last'.recv = Len(snaps)) =>
             LET new == last'.new_assertions
             IN /\ DOMAIN app_gt'.assertions =
                      DOMAIN app_gt.assertions \cup DOMAIN new
                /\ \A f \in DOMAIN app_gt'.assertions :
                      app_gt'.assertions[f] =
                          IF f \in DOMAIN new THEN new[f]
                          ELSE app_gt.assertions[f]]_vars

C11_Witness ==
    /\ last.n = 2
    /\ Len(snaps) = 2
    /\ last.outcome = "returned"
    /\ last.recv = 1
    /\ exclusive_groups # NoGroups

\* C12: every set() that returns carries the receiver's assertions over:
\* a fact of the dag the receiver holds an assertion for, and that the call
\* does not assert anew, has exactly that truth in the new snapshot's dag,
\* and every held snapshot shows each asserted fact of its dag with the
\* truth asserted, whatever the exclusive groups force.
C12_AssertionsPersist ==
    [][/\ Len(snaps') > Len(snaps) =>
             LET recv == snaps[last'.recv]
                 res == snaps'[Len(snaps')]
             IN \A f \in (DOMAIN recv.assertions \ DOMAIN last'.new_assertions)
                            \cap DOMAIN dag_truths(res.dag) :
                   /\ FactTruth(res.dag, f) = recv.assertions[f]
                   /\ FactTruth(res.dag, f) = FactTruth(recv.dag, f)
       /\ \A i \in 1..Len(snaps') :
             \A f \in DOMAIN snaps'[i].assertions \cap DOMAIN dag_truths(snaps'[i].dag) :
                 FactTruth(snaps'[i].dag, f) = snaps'[i].assertions[f]]_vars

C12_Witness ==
    /\ Len(snaps) = 3
    /\ last.recv = 2
    /\ \E f \in (DOMAIN snaps[2].assertions \ DOMAIN last.new_assertions)
                  \cap DOMAIN dag_truths(snaps[3].dag) :
          /\ outdegree(snaps[3].dag, NodeOf(snaps[3].dag, FactNode(f, NN, FALSE))) > 0
          /\ FactTruth(snaps[3].dag, f) = snaps[2].assertions[f]
    /\ \E k \in DOMAIN exclusive_groups :
          \E g \in (exclusive_groups[k] \cap DOMAIN dag_truths(snaps[3].dag))
                    \ DOMAIN snaps[3].assertions :
              FactTruth(snaps[3].dag, g) = FF /\ FactTruth(snaps[2].dag, g) = NN

\* C13: update_truth applied to its own output with the same assertions
\* gives an equal dag; its output is the same whatever truth and pruned the
\* nodes of its input hold; with no assertions a freshly constructed dag
\* comes back equal.
C13_UpdateTruthIdempotent ==
    /\ pc \in {"check", "raised", "returned", "done", "solved"} =>
          LET again == update_truth(new_dag, assertions)
          IN /\ new_dag = update_truth(dag, assertions)
             /\ dag_eq(again, new_dag)
             /\ dag_eq(new_dag, again)
             /\ again = new_dag
    /\ pc \in {"done", "solved"} =>
          /\ dag_eq(update_truth(out_dag, assertions), new_dag)
          /\ dag_eq(update_truth(out_dag, self_assertions),
                    update_truth(dag, self_assertions))
    /\ pc # "start" =>
          /\ dag_eq(update_truth(dag, << >>), dag)
          /\ dag_eq(dag, update_truth(dag, << >>))

C13_Witness ==
    /\ pc = "done"
    /\ assertions # self_assertions
    /\ \E n \in vertices(out_dag) : n.pruned
    /\ \E n \in vertices(new_dag) :
          /\ n.truth # NN
          /\ outdegree(new_dag, n) > 0
          /\ isFactNode(n) => n.fact \notin DOMAIN assertions

\* the vertices reached from those of S along at most k edges
RECURSIVE ReachN(_, _, _)
ReachN(d, S, k) ==
    IF k = 0 THEN S
    ELSE ReachN(d, S \cup UNION {d.graph[m] : m \in S}, k - 1)

Reaches(d, a, b) == b \in ReachN(d, {a}, Cardinality(vertices(d)))

Acyclic(d) ==
    \A v \in vertices(d) : \A m \in d.graph[v] : ~Reaches(d, m, v)

EdgesOf(d) == {<<v, m>> : v \in vertices(d), m \in vertices(d)} \cap
              {e \in vertices(d) \X vertices(d) : e[2] \in d.graph[e[1]]}

\* C14: whatever add_vertex, add_edge and remove_edge calls were made,
\* returning or raising, the dag has no cycle; add_edge(from, to) between
\* two vertices raises exactly when to already reaches from (from itself
\* included), and otherwise returns with the edge added.
C14_NoCycle ==
    [][/\ Acyclic(dag')
       /\ (last'.op = "add_edge" /\ Len(last'.v_tos) = 1
              /\ {last'.v_from, last'.v_tos[1]} \subseteq vertices(dag)) =>
             /\ last'.outcome = "raised" <=>
                    Reaches(dag, last'.v_tos[1], last'.v_from)
             /\ last'.outcome = "returned" =>
                    EdgesOf(dag') = EdgesOf(dag) \cup
                                    {<<last'.v_from, last'.v_tos[1]>>}]_vars

C14_Witness ==
    /\ pc = "dag"
    /\ last.op = "add_edge"
    /\ last.outcome = "raised"
    /\ Len(last.v_tos) = 1
    /\ last.v_from # last.v_tos[1]
    /\ {last.v_from, last.v_tos[1]} \subseteq vertices(dag)
    /\ last.v_from \notin dag.graph[last.v_tos[1]]
    /\ Reaches(dag, last.v_tos[1], last.v_from)

\* C15: a DAG call that raises leaves the vertex set and the edge set as
\* they were before the call.
C15_RaiseLeavesDag ==
    [][last'.outcome = "raised" =>
          /\ vertices(dag') = vertices(dag)
          /\ EdgesOf(dag') = EdgesOf(dag)]_vars

\* C16: == on DAG objects is reflexive and symmetric, and holds exactly
\* when the two have the same vertices (nodes compared by kind, fact, truth
\* and pruned) and the same edges, in whatever order these were added;
\* a dag with one edge removed or one isolated vertex added is unequal to
\* the dag it was copied from.
C16_EqualityIsStructural ==
    pc = "eq" =>
        /\ dag_eq(dag, dag)
        /\ dag_eq(other, other)
        /\ dag_eq(dag, other) <=> dag_eq(other, dag)
        /\ dag_eq(dag, other) <=>
               (vertices(dag) = vertices(other) /\ EdgesOf(dag) = EdgesOf(other))
        /\ \A e \in EdgesOf(dag) :
               LET copy == remove_edge(dag, e[1], e[2]).dag
               IN ~dag_eq(dag, copy) /\ ~dag_eq(copy, dag)
        /\ \A vtx \in EqVertices \ vertices(dag) :
               LET copy == add_vertex(dag, vtx)
               IN ~dag_eq(dag, copy) /\ ~dag_eq(copy, dag)

C16_Witness ==
    /\ pc = "eq"
    /\ dag_eq(dag, other)
    /\ Cardinality(EdgesOf(dag)) = 2
    /\ Cardinality(all_starts(dag)) = 1

\* the facts of the AND-sets of f
Deps(r, f) == IF f \in DOMAIN r THEN UNION {r[f][k] : k \in DOMAIN r[f]} ELSE {}

RECURSIVE DepsN(_, _, _)
DepsN(r, S, k) ==
    IF k = 0 THEN S
    ELSE DepsN(r, S \cup UNION {Deps(r, g) : g \in S}, k - 1)

\* the transitive antecedents of f
Antecedents(r, f) == DepsN(r, Deps(r, f), Cardinality(RulesFacts(r)))

RulesCyclic(r) == \E f \in RulesFacts(r) : f \in Antecedents(r, f)

RuleVertices(r) ==
    {FactNode(f, NN, FALSE) : f \in RulesFacts(r)} \cup
    UNION {{AndNode(f, k - 1, NN, FALSE) :
               k \in {j \in DOMAIN r[f] : Cardinality(r[f][j]) >= 2}} :
           f \in DOMAIN r}

RuleEdgesOf(r, f, k) ==
    IF Cardinality(r[f][k]) = 1
    THEN {<<FactNode(f, NN, FALSE), FactNode(c, NN, FALSE)>> : c \in r[f][k]}
    ELSE {<<FactNode(f, NN, FALSE), AndNode(f, k - 1, NN, FALSE)>>} \cup
         {<<AndNode(f, k - 1, NN, FALSE), FactNode(c, NN, FALSE)>> : c \in r[f][k]}

RuleEdges(r) ==
    UNION {UNION {RuleEdgesOf(r, f, k) : k \in DOMAIN r[f]} : f \in DOMAIN r}

\* C17: the dag construct_dag returns has a fact-node for every key and
\* every fact of an AND-set and an and-node (fact, i) for every AND-set of
\* two or more facts at position i, all unknown and un-pruned; its edges go
\* from a fact to the fact of a singleton AND-set, and from a fact to the
\* and-node and from the and-node to each member for a larger one, and
\* there are no others.  A fact-node has no successor exactly when its fact
\* is no key or has no AND-set, and no predecessor exactly when its fact is
\* in no AND-set.
C17_ConstructDagShape ==
    pc = "loop" =>
        /\ vertices(dag) = RuleVertices(rules)
        /\ DOMAIN dag.graph_reverse = RuleVertices(rules)
        /\ EdgesOf(dag) = RuleEdges(rules)
        /\ \A v \in vertices(dag), m \in vertices(dag) :
               m \in successors(dag, v) <=> v \in predecessors(dag, m)
        /\ \A v \in vertices(dag) : v.truth = NN /\ ~v.pruned
        /\ \A f \in RulesFacts(rules) :
               LET n == FactNode(f, NN, FALSE)
               IN /\ outdegree(dag, n) = 0 <=>
                        (f \notin DOMAIN rules \/ rules[f] = << >>)
                  /\ indegree(dag, n) = 0 <=>
                        ~\E g \in DOMAIN rules : f \in Deps(rules, g)

C17_Witness ==
    /\ pc = "loop"
    /\ dag = construct_dag(rules).dag
    /\ \E f \in DOMAIN rules :
          /\ Len(rules[f]) >= 2
          /\ Cardinality(rules[f][1]) = 1
          /\ AndNode(f, 1, NN, FALSE) \in vertices(dag)
          /\ AndNode(f, 0, NN, FALSE) \notin vertices(dag)
          /\ outdegree(dag, FactNode(f, NN, FALSE)) = 2

\* C18: construct_dag raises for every rule table in which a fact is among
\* its own transitive antecedents, and returns a dag for every table of
\* non-empty AND-sets in which no fact is.
C18_CyclicRulesRaise ==
    /\ pc = "start" => (construct_dag(rules).raised <=> RulesCyclic(rules))
    /\ pc = "construct_raised" => RulesCyclic(rules)
    /\ pc = "loop" => ~RulesCyclic(rules)

C18_Witness ==
    /\ pc = "construct_raised"
    /\ \E f \in DOMAIN rules :
          /\ f \notin Deps(rules, f)
          /\ f \in Antecedents(rules, f)
          /\ \E k \in DOMAIN rules[f] : Cardinality(rules[f][k]) >= 2

\* the truth values of a collection, order and repetition left out
Values(l) == {l[k] : k \in DOMAIN l}

\* C19: on every finite collection of truth values, in any order and of
\* any length, or3 is true if a value is true, else unknown if a value is
\* unknown, else false, and and3 is false if a value is false, else unknown
\* if a value is unknown, else true; on the empty collection or3 is false
\* and and3 is true; on two values they are the Kleene tables.
C19_KleeneTables ==
    /\ pc = "or3" =>
          /\ value = (IF TT \in Values(ls) THEN TT
                      ELSE IF NN \in Values(ls) THEN NN ELSE FF)
          /\ ls = << >> => value = FF
          /\ Len(ls) = 2 =>
                value = (IF ls[1] = TT \/ ls[2] = TT THEN TT
                         ELSE IF ls[1] = FF /\ ls[2] = FF THEN FF ELSE NN)
    /\ pc = "and3" =>
          /\ value = (IF FF \in Values(ls) THEN FF
                      ELSE IF NN \in Values(ls) THEN NN ELSE TT)
          /\ ls = << >> => value = TT
          /\ Len(ls) = 2 =>
                value = (IF ls[1] = FF \/ ls[2] = FF THEN FF
                         ELSE IF ls[1] = TT /\ ls[2] = TT THEN TT ELSE NN)

C19_Witness ==
    /\ pc = "or3"
    /\ Len(ls) = 3
    /\ ls[1] = FF /\ ls[2] = NN /\ ls[3] = FF
    /\ value = NN

\* C20: for a leaf that is unknown and un-pruned in a snapshot, when both
\* set({leaf: True}) and set({leaf: False}) return, each of the four counts
\* node_value computes is at least zero.
C20_CountsNonNegative ==
    (pc = "rated" /\ value.outcome \in {"returned", "domain_error"}) =>
        /\ value.roots_cut_if_false >= 0
        /\ value.roots_cut_if_true >= 0
        /\ value.leaves_pruned_if_false >= 0
        /\ value.leaves_pruned_if_true >= 0

\* forcing the leaf fact to v is contradictory: the evaluation raises an
\* exclusive-group contradiction, or solution() raises on its result
Contradictory(d, a, groups, fact, v) ==
    \E r \in {update_truth_with_groups(d, assertions_set(a, fact, v), groups)} :
        \/ r.outcome = "raised"
        \/ r.outcome = "returned" /\ solution(r.dag).raised

\* C21: what update_guaranteed returns is the input assertions extended leaf
\* by leaf: leaf = true where only forcing it false is contradictory,
\* leaf = false where only forcing it true is contradictory, and nothing
\* where neither is.
C21_GuaranteedPerLeaf ==
    pc = "ug_returned" =>
        \A leaf \in all_terminals(dag) :
            \E cf \in {Contradictory(dag, assertions, exclusive_groups,
                                     leaf.fact, FF)},
               ct \in {Contradictory(dag, assertions, exclusive_groups,
                                     leaf.fact, TT)} :
                /\ (cf /\ ~ct) => Get(value.assertions, leaf.fact) = TT
                /\ (ct /\ ~cf) => Get(value.assertions, leaf.fact) = FF
                /\ (~cf /\ ~ct) =>
                      Get(value.assertions, leaf.fact) = Get(assertions, leaf.fact)

\* C22: update_guaranteed never returns an assertion set when some leaf is
\* contradictory both forced true and forced false.
C22_BothWaysRaises ==
    pc = "ug_returned" =>
        ~\E leaf \in all_terminals(dag) :
            /\ Contradictory(dag, assertions, exclusive_groups, leaf.fact, FF)
            /\ Contradictory(dag, assertions, exclusive_groups, leaf.fact, TT)

\* C29: set() on a tree built with check_guaranteed=True returns the tree
\* that GoalTree(rules, groups, merged assertions, check_guaranteed=True)
\* builds: the same assertions and an equal dag.
C29_SetKeepsGuaranteed ==
    pc = "set" =>
        \E direct \in {GoalTree_guaranteed(rules, exclusive_groups,
                                           snaps[2].assertions)} :
            direct.outcome = "returned" =>
                /\ snaps[2].assertions = direct.assertions
                /\ dag_eq(snaps[2].dag, direct.dag)

Unpruned(n) == [n EXCEPT !.pruned = FALSE]

\* C24: update_pruned leaves its input dag as it was, and its output has
\* one node for each input node, with the same kind, fact or owning fact
\* and ordinal, and truth: nothing differs but the pruned flags.
C24_PruneFrame ==
    [][(pc = "returned" /\ pc' = "done") =>
          /\ new_dag' = new_dag
          /\ {Unpruned(n) : n \in vertices(out_dag')} =
                {Unpruned(n) : n \in vertices(new_dag)}
          /\ Cardinality(vertices(out_dag')) = Cardinality(vertices(new_dag))]_vars

C24_Witness ==
    /\ pc = "done"
    /\ \E n \in vertices(out_dag) : n.pruned
    /\ \E n \in vertices(out_dag) : n.truth = TT
    /\ \E n \in vertices(out_dag) : n.truth = FF
    /\ \E n \in vertices(out_dag) : n.kind = "AndNode" /\ n.truth = NN

\* the graph without truths and pruned flags
Shape(d) ==
    [vertices |-> {Ident(n) : n \in vertices(d)},
     edges |-> {<<Ident(e[1]), Ident(e[2])>> : e \in EdgesOf(d)},
     starts |-> {Ident(n) : n \in all_starts(d)},
     terminals |-> {Ident(n) : n \in all_terminals(d)}]

SameShape(d, skeleton) ==
    /\ Shape(d) = Shape(skeleton)
    /\ Cardinality(vertices(d)) = Cardinality(vertices(skeleton))

\* C25: update_truth and update_pruned keep the shape of the graph: one
\* output node per input node and the same edges between them, so the
\* finished dag has the vertices, edges, roots and leaves of
\* construct_dag(rules).
C25_ShapePreserved ==
    /\ pc \in {"check", "raised", "returned", "done", "solved"} =>
          SameShape(new_dag, dag)
    /\ pc \in {"done", "solved"} =>
          /\ SameShape(out_dag, new_dag)
          /\ SameShape(out_dag, construct_dag(rules).dag)

C25_Witness ==
    /\ pc = "done"
    /\ out_dag # new_dag /\ new_dag # dag
    /\ Cardinality(EdgesOf(out_dag)) > 5
    /\ \E n \in vertices(out_dag) : n.pruned
    /\ \E n \in vertices(out_dag) : indegree(out_dag, n) > 1

\* solution(d) returns None
SolutionNone(d) ==
    \E s \in {solution(d)} : ~s.raised /\ s.value = NoSolution

\* the unknown, un-pruned nodes reached from S through unknown, un-pruned
\* nodes in at most k steps
RECURSIVE LiveReach(_, _, _)
LiveReach(d, S, k) ==
    IF k = 0 THEN S
    ELSE LiveReach(d,
                   S \cup {m \in UNION {successors(d, n) : n \in S} :
                              m.truth = NN /\ ~m.pruned},
                   k - 1)

\* below every unknown root an unknown, un-pruned leaf is reached through
\* unknown, un-pruned nodes
LiveLeafBelowRoots(d) ==
    \A r \in all_starts(d) :
        r.truth = NN =>
            LiveReach(d, {r}, Cardinality(vertices(d))) \cap all_terminals(d)
                # {}

\* C26: in a snapshot for which solution() returns None, below every unknown
\* root there is an unknown, un-pruned leaf, rated_facts has a leaf to rate,
\* and rating it returns, so that the first rated fact is defined.
C26_QuestionDefined ==
    (pc \in {"rate", "rated"} /\ SolutionNone(app_gt.dag)) =>
        /\ LiveLeafBelowRoots(app_gt.dag)
        /\ RatedLeaves # {}
        /\ pc = "rated" => value.outcome = "returned"

\* the leaves of unknown truth
UnknownLeaves(d) == {n \in all_terminals(d) : n.truth = NN}

\* an answer that set() accepted: fewer leaves are unknown and every node
\* that had a known truth has kept it
AnswerNarrows ==
    snaps' # snaps =>
        /\ Cardinality(UnknownLeaves(snaps'[1].dag))
              < Cardinality(UnknownLeaves(snaps[1].dag))
        /\ \A n \in vertices(snaps[1].dag) :
              n.truth # NN => NodeOf(snaps'[1].dag, Ident(n)).truth = n.truth

\* the session is over: solution() returns a fact or raises, or an answer
\* failed on an exclusive group
SessionOver ==
    \/ pc = "failed"
    \/ pc = "ask" /\ \E s \in {solution(app_gt.dag)} :
                        s.raised \/ s.value # NoSolution

\* C27: every accepted answer leaves fewer unknown leaves and changes no
\* known truth, no session has more accepted answers than the dag has
\* leaves, and every session comes to its end: solution() returns a fact or
\* raises, or an answer fails on an exclusive group.
C27_QuestionSessionEnds ==
    /\ [][AnswerNarrows]_vars
    /\ [](last.n <= Cardinality(all_terminals(app_gt.dag)))
    /\ <>SessionOver

\* the two indices have the same keys, describe the same edges, and name
\* vertices only
IndicesAgree(d) ==
    /\ DOMAIN d.graph = DOMAIN d.graph_reverse
    /\ \A u \in DOMAIN d.graph :
          /\ d.graph[u] \subseteq DOMAIN d.graph
          /\ d.graph_reverse[u] \subseteq DOMAIN d.graph
          /\ \A v \in DOMAIN d.graph :
                v \in successors(d, u) <=> u \in predecessors(d, v)

\* C28: after any sequence of add_vertex, add_edge and remove_edge calls,
\* returning or raising, v is a successor of u exactly when u is a
\* predecessor of v, every endpoint of an edge is a vertex, all_starts and
\* all_terminals are the vertices no edge enters and no edge leaves, and
\* add_vertex of a vertex the dag has changes nothing.
C28_IndicesAgree ==
    /\ [](/\ IndicesAgree(dag)
          /\ all_starts(dag) =
                {v \in vertices(dag) : ~\E u \in vertices(dag) : v \in dag.graph[u]}
          /\ all_terminals(dag) =
                {u \in vertices(dag) : ~\E v \in vertices(dag) : v \in dag.graph[u]})
    /\ [][(last'.op = "add_vertex" /\ last'.v_from \in vertices(dag))
             => dag' = dag]_vars

C28_Witness ==
    /\ last.op = "add_vertex" /\ last.v_from = "feathers"
    /\ vertices(dag) = DagVertices
    /\ dag.graph["bird"] = {"feathers"}
    /\ dag.graph_reverse["feathers"] = {"bird", "swims"}
    /\ all_starts(dag) = {"swims"}

\* C30: in the in-place variant, after any Goal.set calls on leaves, each
\* leaf holds the value it was last set to, each derived goal holds or3 over
\* its and-sets of and3 over the members' truths, and every goal's truth is
\* what update_truth computes from the accumulated leaf assertions.
C30_InPlaceEqualsSnapshot ==
    pc = "goal" =>
        /\ \A f \in DOMAIN assertions : value[f] = assertions[f]
        /\ \A g \in DOMAIN value :
              ~Goal_is_leaf(rules, g) =>
                  value[g] = KleeneOr({KleeneAnd({value[m] : m \in rules[g][k]}) :
                                        k \in DOMAIN rules[g]})
        /\ \E d \in {update_truth(construct_dag(rules).dag, assertions)} :
              \A g \in DOMAIN value : value[g] = FactTruth(d, g)

C30_Witness ==
    /\ pc = "goal" /\ rules = Rules_goal_bird
    /\ \E f \in DOMAIN self_assertions :
          /\ self_assertions[f] = TT /\ assertions[f] = FF
          /\ f \in DOMAIN last.new_assertions
    /\ value["bird"] = TT
    /\ value["penguin"] = FF
    /\ value["albatross"] = NN

====
